---- MODULE Spec2Model ----
(***************************************************************************)
(* A model of the five-stage BOP standardisation workflow:                 *)
(*   src/src/workflow/orchestrator.py  ADNOCWorkflow.run_complete_workflow *)
(*   src/src/agents/base.py            LLMAgent and the lazy vendor clients*)
(*   src/src/agents/*_agent.py         the five prompt builders            *)
(*                                                                         *)
(* Texts are TLA+ strings and are built the way the f-strings of the       *)
(* source build them.  The en dash of the agent names is written "-" (the  *)
(* module is ASCII).  Durations are integers in units of 0.01 s, the grid  *)
(* round(x, 2) rounds to, so rounding is the identity on them.             *)
(* A Python dict is a function; documents, whose iteration order the       *)
(* prompt builders observe, is the sequence of its (label, text) items.    *)
(***************************************************************************)
EXTENDS Integers, Sequences, FiniteSets, TLC

VARIABLES
    settings,               \* src/config.py: the Settings singleton
    config,                 \* WorkflowConfig of the ADNOCWorkflow
    documents,              \* the document set given to the run
    vendor_latency,         \* how long a vendor call of this run takes
    operation_name,         \* the operation name given to the run
    openai_client,          \* base.py _openai_client
    anthropic_client,       \* base.py _anthropic_client
    clients_initialized,    \* base.py _clients_initialized
    ctor_calls,             \* vendor client constructions so far, per vendor
    system_prompt,          \* LLMAgent.system_prompt of agent1..agent5
    pc,                     \* position inside run_complete_workflow
    stage,                  \* the stage 1..5 the run is in (0 before the first)
    out_dir,                \* the output directory path of the run
    files,                  \* content of out_dir: file name -> file
    previous,               \* the run context: "agent<k>" -> content
    summary,                \* the run summary being accumulated
    r,                      \* the AgentResult of the current stage
    log,                    \* history: what the run did, in order
    script,                 \* scripts/run_bop_auto.py main: what it printed, its exit status
    invocations,            \* several invocations of the workflow: each one's position
    fs,                     \* the filesystem those invocations share: path -> file
    user_prompt,            \* the user prompt an agent built last
    timestamp               \* the timestamp the run took when it started

vars == <<settings, config, documents, vendor_latency, operation_name, openai_client,
          anthropic_client, clients_initialized, ctor_calls, system_prompt,
          pc, stage, out_dir, files, previous, summary, r, log,
          script, invocations, fs, user_prompt, timestamp>>

-----------------------------------------------------------------------------
(* Bounds of the model and the inputs drawn within them.                    *)

\* The longest vendor call, in units of 0.01 s: a run's vendor calls take
\* vendor_latency, drawn from 0..MaxLatency.
MaxLatency == 1

\* The most calls (of validate, of LLMAgent.run) one process makes.
MaxCalls == 3

\* Python's None, and a value that is present.
None == [is_none |-> TRUE]

Some(v) == [is_none |-> FALSE, value |-> v]

\* Python truthiness of an optional string (None and "" are falsy).
Truthy(v) == IF v = None THEN FALSE ELSE v.value # ""

\* s * n of Python, for building long texts.
RECURSIVE Repeat(_, _)
Repeat(s, n) ==
    IF n = 0 THEN ""
    ELSE IF n % 2 = 1 THEN s \o Repeat(s, n - 1)
    ELSE LET h == Repeat(s, n \div 2) IN h \o h

\* A prefix that is one character short.
Prefix_OneShort(s, n) == IF Len(s) <= n THEN s ELSE SubSeq(s, 1, n - 1)

\* s[:n] of Python.
Prefix(s, n) == IF Len(s) <= n THEN s ELSE SubSeq(s, 1, n)

\* s[from - 1 : to] of Python: the characters from..to of s that exist.
Slice(s, from, to) ==
    IF from > Len(s) \/ to < from THEN ""
    ELSE SubSeq(s, from, IF to > Len(s) THEN Len(s) ELSE to)

\* sub in s of Python.
Contains(s, sub) ==
    \E i \in 0..(Len(s) - Len(sub)) : SubSeq(s, i + 1, i + Len(sub)) = sub

\* s.endswith(suffix) and s.startswith(prefix) of Python.
EndsWith(s, suffix) ==
    Len(s) >= Len(suffix) /\ SubSeq(s, Len(s) - Len(suffix) + 1, Len(s)) = suffix

StartsWith(s, prefix) == Len(s) >= Len(prefix) /\ SubSeq(s, 1, Len(prefix)) = prefix

\* The components of a path string as pathlib parses it: split at "/", empty
\* components and "." dropped (".." is kept).
PathParts(s) ==
    LET Flush(done, cur) == IF cur \in {"", "."} THEN done ELSE Append(done, cur)
        RECURSIVE Scan(_, _, _)
        Scan(i, done, cur) ==
            IF i > Len(s) THEN Flush(done, cur)
            ELSE IF SubSeq(s, i, i) = "/"
                 THEN Scan(i + 1, Flush(done, cur), "")
                 ELSE Scan(i + 1, done, cur \o SubSeq(s, i, i))
    IN  Scan(1, << >>, "")

\* Path(s): the parts of the path, "/" first when it is absolute.
PurePath(s) == IF StartsWith(s, "/") THEN <<"/">> \o PathParts(s) ELSE PathParts(s)

\* path / s of pathlib: an absolute s replaces path.
PathJoin(path, s) == IF StartsWith(s, "/") THEN PurePath(s) ELSE path \o PathParts(s)

\* Path(base) / operation_name / leaf: the output directory of a run.
OutDir(base, op, leaf) == PathJoin(PathJoin(PurePath(base), op), leaf)

\* d.get(key, default) of Python.
Get(d, key, default) == IF key \in DOMAIN d THEN d[key] ELSE default

\* d[key] = value of Python.
Put(d, key, value) ==
    [x \in (DOMAIN d) \cup {key} |-> IF x = key THEN value ELSE d[x]]

\* {**a, **b} of Python: b's entries win.
Merge(a, b) ==
    [x \in (DOMAIN a) \cup (DOMAIN b) |-> IF x \in DOMAIN b THEN b[x] ELSE a[x]]

\* sep.join(parts) of Python.
RECURSIVE Join(_, _)
Join(sep, parts) ==
    IF Len(parts) = 0 THEN ""
    ELSE IF Len(parts) = 1 THEN parts[1]
    ELSE parts[1] \o sep \o Join(sep, Tail(parts))

Stages == 1..5

ApiKeys == {None, Some("test-openai-key-12345")}

\* What a credential of the environment can be: unset, set but empty, set.
Credentials == {None, Some(""), Some("test-key")}

Backends == {"openai", "anthropic", "gemini"}

DocumentSets ==
    { << <<"Doc A", "hello world">> >>,
      << <<"Dana ROP", Repeat("x", 1200)>>, <<"Dana JSA", "JOB SAFETY ANALYSIS">> >> }

OperationNames == {"BOP Installation"}

Timestamps == {"20240101-120000"}

\* WorkflowConfig with its defaults for all but the backend: what
\* run_bop_auto.py and the tests of run_complete_workflow construct.
SequentialConfigs ==
    [ backend : Backends, output_base_dir : {"outputs"}, mode : {"sequential"},
      rig_name : {None}, operation_type : {None}, adnoc_cps : {<< >>},
      constraints : {None} ]

\* The mode values: the two the code names and one it does not.
Modes == {"sequential", "integrated", "parallel"}

\* WorkflowConfig for ADNOCWorkflow.run: any mode, with the integrated
\* mode's fields left at their defaults or all given.
DispatchConfigs ==
    [ backend : Backends, output_base_dir : {"outputs"}, mode : Modes,
      rig_name : {None}, operation_type : {None}, adnoc_cps : {<< >>},
      constraints : {None} ]
    \cup
    [ backend : Backends, output_base_dir : {"outputs"}, mode : {"integrated"},
      rig_name : {Some("Dana")}, operation_type : {Some("BOP Installation")},
      adnoc_cps : {<<"HSE-PSW-CP01", "HSE-GA-ST07">>},
      constraints : {Some("Limited crane capacity")} ]

-----------------------------------------------------------------------------
(* The five agents: names, context keys, file names, prompts.               *)

\* The name each agent gives its LLMAgent.
AgentName(k) ==
    CASE k = 1 -> "Agent 1 - Comparison Analyst"
      [] k = 2 -> "Agent 2 - Gap Detector"
      [] k = 3 -> "Agent 3 - HP Evaluator"
      [] k = 4 -> "Agent 4 - Equipment Validator"
      [] k = 5 -> "Agent 5 - Standardisation Writer"

\* A copy-and-paste slip: stage 2's content is filed under agent1.
StageKey_Pasted(k) ==
    CASE k = 1 -> "agent1"
      [] k = 2 -> "agent1"
      [] k = 3 -> "agent3"
      [] k = 4 -> "agent4"
      [] k = 5 -> "agent5"

\* The key under which the orchestrator files stage k's content in previous.
StageKey(k) ==
    CASE k = 1 -> "agent1"
      [] k = 2 -> "agent2"
      [] k = 3 -> "agent3"
      [] k = 4 -> "agent4"
      [] k = 5 -> "agent5"

\* A copy-and-paste slip: stage 3 is saved under stage 2's name.
StageName_Pasted(k) ==
    CASE k = 1 -> "agent1_comparison"
      [] k = 2 -> "agent2_gaps"
      [] k = 3 -> "agent2_gaps"
      [] k = 4 -> "agent4_equipment_validation"
      [] k = 5 -> "agent5_standardisation"

\* The name save_result is called with for stage k.
StageName(k) ==
    CASE k = 1 -> "agent1_comparison"
      [] k = 2 -> "agent2_gaps"
      [] k = 3 -> "agent3_hp_evaluation"
      [] k = 4 -> "agent4_equipment_validation"
      [] k = 5 -> "agent5_standardisation"

MdFile(k) == StageName(k) \o ".md"

MetaFile(k) == StageName(k) \o ".meta.json"

SummaryFile == "summary.json"

\* The system prompt an agent is constructed with: the hardcoded default (the
\* template files are not part of the repository sources); its heading line.
BasePrompt(k) == "# " \o AgentName(k) \o "\n"

\* Agent 1 marking every excerpt, cut or not, the way agents 3 to 5 do.
ComparisonExcerpt_AlwaysMarks(doc) ==
    "### " \o doc[1] \o "\n\n" \o Prefix(doc[2], 8000) \o "..."

\* for name, text in documents.items(): the excerpt of agent 1.
ComparisonExcerpt(doc) ==
    IF Len(doc[2]) > 8000
    THEN "### " \o doc[1] \o "\n\n" \o Prefix(doc[2], 8000) \o "..."
    ELSE "### " \o doc[1] \o "\n\n" \o doc[2]

\* for name, text in documents.items(): the excerpt of agent 4.
EquipmentExcerpt(doc) ==
    "### " \o doc[1] \o "\n\n" \o Prefix(doc[2], 6000) \o "..."

\* The system prompt agents 2 and 4 install on every run (operation_name is
\* never passed by the orchestrator, so op_label is the default label).
GroundedSystemPrompt(k, docs) ==
    LET op_label == "the current operation described in the documents"
        first_doc == IF Len(docs) > 0 THEN docs[1][2] ELSE ""
        source_snippet == Prefix(first_doc, 1500)
    IN  BasePrompt(k) \o "\n\n"
        \o "Operation context: " \o op_label \o ".\n"
        \o "Source document snippet (for grounding):\n"
        \o source_snippet

\* The system prompt of agent k after its run(docs, ...) began.
SystemPromptAfterRun(k, docs, old) ==
    IF k \in {2, 4} THEN GroundedSystemPrompt(k, docs) ELSE old

ComparisonPrompt(docs, prev) ==
    "You are given multiple rig procedures and JSAs for BOP operations.\n"
    \o "Perform a comprehensive inventory, structure mapping, and detailed comparison.\n\n"
    \o "# Documents\n\n"
    \o Join("\n\n", [i \in 1..Len(docs) |-> ComparisonExcerpt(docs[i])])

GapDetectorPrompt(docs, prev) ==
    "You are analyzing BOP procedures for gaps and misalignments.\n\n"
    \o "# Agent 1 Comparison Output\n\n"
    \o Get(prev, "agent1", "") \o "\n\n"
    \o "Based on this comparison, identify all gaps, missing steps, hazards, and misalignments."

HPEvaluatorPrompt(docs, prev) ==
    "You are evaluating human performance factors in BOP procedures.\n\n"
    \o "# Agent 1 Comparison Output\n\n"
    \o Prefix(Get(prev, "agent1", ""), 6000) \o "...\n\n"
    \o "# Agent 2 Gap Analysis\n\n"
    \o Prefix(Get(prev, "agent2", ""), 4000) \o "...\n\n"
    \o "Evaluate human performance maturity, critical controls, and error prevention."

EquipmentValidatorPrompt(docs, prev) ==
    "You are validating equipment specifications for BOP standardization.\n\n"
    \o "# Documents (Equipment Sections)\n\n"
    \o Join("\n\n", [i \in 1..Len(docs) |-> EquipmentExcerpt(docs[i])]) \o "\n\n"
    \o "# Agent 1 Comparison (for context)\n\n"
    \o Prefix(Get(prev, "agent1", ""), 4000) \o "...\n\n"
    \o "Extract and compare all equipment specifications. Assess standardization feasibility."

\* Agent 5 cutting the output of stage 1 to the budget of the others.
StandardisationWriterPrompt_OneBudget(docs, prev) ==
    "You are creating the final standardized BOP procedures.\n\n"
    \o "# Agent 1 - Comparison Analysis\n\n"
    \o Prefix(Get(prev, "agent1", ""), 4000) \o "...\n\n"
    \o "# Agent 2 - Gap Analysis\n\n"
    \o Prefix(Get(prev, "agent2", ""), 4000) \o "...\n\n"
    \o "# Agent 3 - HP Evaluation\n\n"
    \o Prefix(Get(prev, "agent3", ""), 4000) \o "...\n\n"
    \o "# Agent 4 - Equipment Validation\n\n"
    \o Prefix(Get(prev, "agent4", ""), 4000) \o "...\n\n"
    \o "Synthesize all findings into a comprehensive standardized ROP and JSA."

StandardisationWriterPrompt(docs, prev) ==
    "You are creating the final standardized BOP procedures.\n\n"
    \o "# Agent 1 - Comparison Analysis\n\n"
    \o Prefix(Get(prev, "agent1", ""), 5000) \o "...\n\n"
    \o "# Agent 2 - Gap Analysis\n\n"
    \o Prefix(Get(prev, "agent2", ""), 4000) \o "...\n\n"
    \o "# Agent 3 - HP Evaluation\n\n"
    \o Prefix(Get(prev, "agent3", ""), 4000) \o "...\n\n"
    \o "# Agent 4 - Equipment Validation\n\n"
    \o Prefix(Get(prev, "agent4", ""), 4000) \o "...\n\n"
    \o "Synthesize all findings into a comprehensive standardized ROP and JSA."

\* The user prompt agent k builds from the documents and the run context.
UserPrompt(k, docs, prev) ==
    CASE k = 1 -> ComparisonPrompt(docs, prev)
      [] k = 2 -> GapDetectorPrompt(docs, prev)
      [] k = 3 -> HPEvaluatorPrompt(docs, prev)
      [] k = 4 -> EquipmentValidatorPrompt(docs, prev)
      [] k = 5 -> StandardisationWriterPrompt(docs, prev)

-----------------------------------------------------------------------------
(* base.py: the lazily initialized vendor clients and LLMAgent.             *)

\* What a vendor call can do: return a response or raise.  An OpenAI
\* response carries choices[0].message.content (possibly None) and usage
\* (possibly None); an Anthropic one a list of content blocks and usage.
OpenAIOutcomes ==
    { [kind |-> "ok", content |-> Some("This is a mock OpenAI response for testing."),
       usage |-> [prompt_tokens |-> 100, completion_tokens |-> 50, total_tokens |-> 150]],
      [kind |-> "ok", content |-> None, usage |-> None],
      [kind |-> "raise", message |-> "API Error"] }

AnthropicOutcomes ==
    { [kind |-> "ok",
       content |-> << [type |-> "text", text |-> "This is a mock"],
                      [type |-> "tool_use", text |-> "ignored"],
                      [type |-> "text", text |-> "Anthropic response."] >>,
       usage |-> [input_tokens |-> 100, output_tokens |-> 50]],
      [kind |-> "ok", content |-> << >>, usage |-> None],
      [kind |-> "raise", message |-> "Anthropic Error"] }

\* Clients made whenever one is missing: a construction that failed is tried
\* again on the next call.
InitializeClients_Retries(cur, openai_ok, anthropic_ok) ==
    [ openai |->
        IF cur.openai # None THEN cur.openai
        ELSE IF Truthy(settings.openai_api_key) /\ openai_ok
        THEN Some([vendor |-> "openai", api_key |-> settings.openai_api_key.value,
                   serial |-> cur.made.openai + 1])
        ELSE None,
      anthropic |->
        IF cur.anthropic # None THEN cur.anthropic
        ELSE IF Truthy(settings.anthropic_api_key) /\ anthropic_ok
        THEN Some([vendor |-> "anthropic", api_key |-> settings.anthropic_api_key.value,
                   serial |-> cur.made.anthropic + 1])
        ELSE None,
      initialized |-> TRUE,
      made |-> [ openai |-> cur.made.openai
                     + (IF cur.openai = None /\ Truthy(settings.openai_api_key)
                        THEN 1 ELSE 0),
                 anthropic |-> cur.made.anthropic
                     + (IF cur.anthropic = None /\ Truthy(settings.anthropic_api_key)
                        THEN 1 ELSE 0) ] ]

\* _initialize_clients forgetting to set _clients_initialized.
InitializeClients_Uncached(cur, openai_ok, anthropic_ok) ==
    [ openai |->
        IF Truthy(settings.openai_api_key)
        THEN IF openai_ok
             THEN Some([vendor |-> "openai", api_key |-> settings.openai_api_key.value,
                        serial |-> cur.made.openai + 1])
             ELSE None
        ELSE cur.openai,
      anthropic |->
        IF Truthy(settings.anthropic_api_key)
        THEN IF anthropic_ok
             THEN Some([vendor |-> "anthropic",
                        api_key |-> settings.anthropic_api_key.value,
                        serial |-> cur.made.anthropic + 1])
             ELSE None
        ELSE cur.anthropic,
      initialized |-> FALSE,
      made |-> [ openai |-> cur.made.openai
                     + (IF Truthy(settings.openai_api_key) THEN 1 ELSE 0),
                 anthropic |-> cur.made.anthropic
                     + (IF Truthy(settings.anthropic_api_key) THEN 1 ELSE 0) ] ]

\* _initialize_clients: the three globals after it ran, given whether each
\* vendor constructor succeeds; made counts the constructor calls per vendor
\* and serial tells the objects they made apart.
InitializeClients(cur, openai_ok, anthropic_ok) ==
    IF cur.initialized THEN cur
    ELSE [ openai |->
             IF Truthy(settings.openai_api_key)
             THEN IF openai_ok
                  THEN Some([vendor |-> "openai", api_key |-> settings.openai_api_key.value,
                             serial |-> cur.made.openai + 1])
                  ELSE None
             ELSE cur.openai,
           anthropic |->
             IF Truthy(settings.anthropic_api_key)
             THEN IF anthropic_ok
                  THEN Some([vendor |-> "anthropic",
                             api_key |-> settings.anthropic_api_key.value,
                             serial |-> cur.made.anthropic + 1])
                  ELSE None
             ELSE cur.anthropic,
           initialized |-> TRUE,
           made |-> [ openai |-> cur.made.openai
                          + (IF Truthy(settings.openai_api_key) THEN 1 ELSE 0),
                      anthropic |-> cur.made.anthropic
                          + (IF Truthy(settings.anthropic_api_key) THEN 1 ELSE 0) ] ]

\* The module globals as one record.
Clients ==
    [ openai |-> openai_client, anthropic |-> anthropic_client,
      initialized |-> clients_initialized, made |-> ctor_calls ]

\* The text of the content blocks of type "text", in order.
TextParts(blocks) ==
    LET F[i \in 0..Len(blocks)] ==
            IF i = 0 THEN << >>
            ELSE IF blocks[i].type = "text" THEN Append(F[i - 1], blocks[i].text)
            ELSE F[i - 1]
    IN  F[Len(blocks)]

\* _call_openai without its except clause: the vendor's exception leaves it.
CallOpenAI_Propagates(name, prompt, client, outcome, latency) ==
    IF client = None
    THEN [ text |-> "[" \o name \o "] OPENAI_API_KEY not set; returning stub output.\n\nPROMPT:\n"
                    \o Prefix(prompt, 1000),
           meta |-> [error |-> "No OpenAI client available"],
           vendor_called |-> FALSE, raised |-> FALSE ]
    ELSE IF outcome.kind = "raise"
    THEN [ vendor_called |-> TRUE, raised |-> TRUE ]
    ELSE [ text |-> IF outcome.content = None THEN "" ELSE outcome.content.value,
           meta |-> [ model |-> settings.model_name_openai,
                      tokens_prompt |->
                          IF outcome.usage # None THEN outcome.usage.prompt_tokens ELSE 0,
                      tokens_completion |->
                          IF outcome.usage # None THEN outcome.usage.completion_tokens ELSE 0,
                      tokens_total |->
                          IF outcome.usage # None THEN outcome.usage.total_tokens ELSE 0,
                      duration_seconds |-> latency ],
           vendor_called |-> TRUE, raised |-> FALSE ]

\* LLMAgent._call_openai with the client _get_openai_client returned; the
\* vendor call, when made, ends as outcome after latency.  raised tells
\* whether an exception leaves the method (the except clause catches all).
CallOpenAI(name, prompt, client, outcome, latency) ==
    IF client = None
    THEN [ text |-> "[" \o name \o "] OPENAI_API_KEY not set; returning stub output.\n\nPROMPT:\n"
                    \o Prefix(prompt, 1000),
           meta |-> [error |-> "No OpenAI client available"],
           vendor_called |-> FALSE, raised |-> FALSE ]
    ELSE IF outcome.kind = "raise"
    THEN [ text |-> "[" \o name \o "] Error calling OpenAI: " \o outcome.message,
           meta |-> [error |-> outcome.message, duration_seconds |-> latency],
           vendor_called |-> TRUE, raised |-> FALSE ]
    ELSE [ text |-> IF outcome.content = None THEN "" ELSE outcome.content.value,
           meta |-> [ model |-> settings.model_name_openai,
                      tokens_prompt |->
                          IF outcome.usage # None THEN outcome.usage.prompt_tokens ELSE 0,
                      tokens_completion |->
                          IF outcome.usage # None THEN outcome.usage.completion_tokens ELSE 0,
                      tokens_total |->
                          IF outcome.usage # None THEN outcome.usage.total_tokens ELSE 0,
                      duration_seconds |-> latency ],
           vendor_called |-> TRUE, raised |-> FALSE ]

\* _call_anthropic reporting a fixed error text instead of str(e).
CallAnthropic_GenericError(name, prompt, client, outcome, latency) ==
    IF client = None
    THEN [ text |-> "[" \o name \o "] ANTHROPIC_API_KEY not set; returning stub output.\n\nPROMPT:\n"
                    \o Prefix(prompt, 1000),
           meta |-> [error |-> "No Anthropic client available"],
           vendor_called |-> FALSE, raised |-> FALSE ]
    ELSE IF outcome.kind = "raise"
    THEN [ text |-> "[" \o name \o "] Error calling Anthropic",
           meta |-> [error |-> "Anthropic call failed", duration_seconds |-> latency],
           vendor_called |-> TRUE, raised |-> FALSE ]
    ELSE [ text |-> Join("\n", TextParts(outcome.content)),
           meta |-> [ model |-> settings.model_name_anthropic,
                      tokens_prompt |->
                          IF outcome.usage # None THEN outcome.usage.input_tokens ELSE 0,
                      tokens_completion |->
                          IF outcome.usage # None THEN outcome.usage.output_tokens ELSE 0,
                      tokens_total |->
                          IF outcome.usage # None
                          THEN outcome.usage.input_tokens + outcome.usage.output_tokens
                          ELSE 0,
                      duration_seconds |-> latency ],
           vendor_called |-> TRUE, raised |-> FALSE ]

\* LLMAgent._call_anthropic, likewise.
CallAnthropic(name, prompt, client, outcome, latency) ==
    IF client = None
    THEN [ text |-> "[" \o name \o "] ANTHROPIC_API_KEY not set; returning stub output.\n\nPROMPT:\n"
                    \o Prefix(prompt, 1000),
           meta |-> [error |-> "No Anthropic client available"],
           vendor_called |-> FALSE, raised |-> FALSE ]
    ELSE IF outcome.kind = "raise"
    THEN [ text |-> "[" \o name \o "] Error calling Anthropic: " \o outcome.message,
           meta |-> [error |-> outcome.message, duration_seconds |-> latency],
           vendor_called |-> TRUE, raised |-> FALSE ]
    ELSE [ text |-> Join("\n", TextParts(outcome.content)),
           meta |-> [ model |-> settings.model_name_anthropic,
                      tokens_prompt |->
                          IF outcome.usage # None THEN outcome.usage.input_tokens ELSE 0,
                      tokens_completion |->
                          IF outcome.usage # None THEN outcome.usage.output_tokens ELSE 0,
                      tokens_total |->
                          IF outcome.usage # None
                          THEN outcome.usage.input_tokens + outcome.usage.output_tokens
                          ELSE 0,
                      duration_seconds |-> latency ],
           vendor_called |-> TRUE, raised |-> FALSE ]

\* The backend path LLMAgent.run takes for a backend value.
\* run taking the OpenAI path for "openai" only; every other value goes to
\* Anthropic.
BackendPath_OpenAIByName(backend) == IF backend = "openai" THEN "openai" ELSE "anthropic"

BackendPath(backend) == IF backend = "anthropic" THEN "anthropic" ELSE "openai"

\* LLMAgent.run: the AgentResult, with which path was called and whether
\* the vendor API was called.  clients are the globals after the lazy
\* initialization.  end - start is the time the vendor call took, when one
\* was made: nothing else in run blocks.
LLMAgentRun(name, prompt, backend, clients, outcome, latency) ==
    LET path == BackendPath(backend)
        res == IF path = "anthropic"
               THEN CallAnthropic(name, prompt, clients.anthropic, outcome, latency)
               ELSE CallOpenAI(name, prompt, clients.openai, outcome, latency)
        elapsed == IF res.vendor_called THEN latency ELSE 0
    IN  IF res.raised
        THEN [ raised |-> TRUE, path |-> path, vendor_called |-> res.vendor_called ]
        ELSE [ raised |-> FALSE,
               content |-> res.text,
               meta |-> Merge([ agent |-> name, backend |-> backend,
                                total_duration_seconds |-> elapsed ], res.meta),
               path |-> path,
               vendor_called |-> res.vendor_called ]

-----------------------------------------------------------------------------
(* orchestrator.py: ADNOCWorkflow.run_complete_workflow, step by step.      *)

\* An empty dict, an empty directory.
EmptyDict == [x \in {} |-> x]

\* json.dumps(x, indent=2): the JSON text of x, kept as the structure it encodes.
JsonDumps(x) == [json |-> x]

\* What Path.write_text can do: write the file, raise before the file is
\* opened, or raise after it was opened (leaving it truncated).
WriteOutcomes == {"ok", "raise_no_file", "raise_truncated"}

\* The directory after path.write_text(data) ended as outcome.
WriteText(dir, name, data, outcome) ==
    CASE outcome = "ok" -> Put(dir, name, [complete |-> TRUE, data |-> data])
      [] outcome = "raise_truncated" -> Put(dir, name, [complete |-> FALSE])
      [] outcome = "raise_no_file" -> dir

\* The summary dict run_complete_workflow starts from.
NewSummary(op, stamp, backend) ==
    [ operation |-> op, timestamp |-> stamp, backend |-> backend,
      agents |-> << >>, total_tokens |-> 0, total_duration_seconds |-> 0 ]

\* save_result assigning the totals instead of adding to them.
UpdatedSummary_Overwrites(sum, name, meta) ==
    [ sum EXCEPT
        !.agents = Append(@, Merge(meta, [name |-> name])),
        !.total_tokens = Get(meta, "tokens_total", 0),
        !.total_duration_seconds = Get(meta, "total_duration_seconds", 0) ]

\* save_result's update of the summary with one stage's metadata.
UpdatedSummary(sum, name, meta) ==
    [ sum EXCEPT
        !.agents = Append(@, Merge(meta, [name |-> name])),
        !.total_tokens = @ + Get(meta, "tokens_total", 0),
        !.total_duration_seconds = @ + Get(meta, "total_duration_seconds", 0) ]

\* A slip in the stage sequence: the stage after stage 2 is left out.
NextStage_Skipping(k) == IF k = 2 THEN 4 ELSE k + 1

\* The stage run after stage k, 6 when k was the last.
NextStage(k) == k + 1

\* A slip in the statement order: the metadata file is not written before
\* the run goes on.
AfterStep_SkipsMeta(step, k) ==
    CASE step = "run_agent" -> "write_md"
      [] step = "write_md" -> "update_summary"
      [] step = "write_meta" -> "update_summary"
      [] step = "update_summary" -> "set_previous"
      [] step = "set_previous" ->
            IF NextStage(k) \in Stages THEN "run_agent" ELSE "write_summary"
      [] step = "write_summary" -> "DONE"

\* A slip in the statement order: the summary is written when stage 4 is
\* done, before stage 5 runs.
AfterStep_EarlySummary(step, k) ==
    CASE step = "run_agent" -> "write_md"
      [] step = "write_md" -> "write_meta"
      [] step = "write_meta" -> "update_summary"
      [] step = "update_summary" -> "set_previous"
      [] step = "set_previous" ->
            IF k = 4 THEN "write_summary"
            ELSE IF NextStage(k) \in Stages THEN "run_agent" ELSE "DONE"
      [] step = "write_summary" -> IF k = 4 THEN "run_agent" ELSE "DONE"

\* The statement order of the function body: the step that follows step of
\* stage k when step did not raise.
AfterStep(step, k) ==
    CASE step = "run_agent" -> "write_md"
      [] step = "write_md" -> "write_meta"
      [] step = "write_meta" -> "update_summary"
      [] step = "update_summary" -> "set_previous"
      [] step = "set_previous" ->
            IF NextStage(k) \in Stages THEN "run_agent" ELSE "write_summary"
      [] step = "write_summary" -> "DONE"

\* The client of a backend path among the module globals.
ClientOf(clients, path) ==
    IF path = "anthropic" THEN clients.anthropic ELSE clients.openai

\* main of run_bop_auto.py before it calls the workflow: nothing reported, no
\* exit status yet.
NewScript == [stdout |-> << >>, exit_status |-> None]

\* The exit status of the process: sys.exit(1) in the except clause, 0 when
\* main returns.
ExitStatus_AlwaysZero(raised) == 0

ExitStatus(raised) == IF raised THEN 1 ELSE 0

Init ==
    /\ settings \in [ openai_api_key : ApiKeys, anthropic_api_key : ApiKeys,
                      model_name_openai : {"gpt-4o"},
                      model_name_anthropic : {"claude-3-5-sonnet-20241022"} ]
    /\ config \in SequentialConfigs
    /\ documents \in DocumentSets
    /\ vendor_latency \in 0..MaxLatency
    /\ operation_name \in OperationNames
    /\ openai_client = None
    /\ anthropic_client = None
    /\ clients_initialized = FALSE
    /\ ctor_calls = [openai |-> 0, anthropic |-> 0]
    /\ system_prompt = [k \in Stages |-> BasePrompt(k)]
    /\ pc = "START"
    /\ stage = 0
    /\ out_dir = None
    /\ files = EmptyDict
    /\ previous = EmptyDict
    /\ summary = None
    /\ r = None
    /\ log = << >>
    /\ script = NewScript
    /\ invocations = << >>
    /\ fs = EmptyDict
    /\ user_prompt = None
    /\ timestamp = None

\* Lines 100-122: the output directory is made, summary and previous start.
Start ==
    /\ pc = "START"
    /\ \E now \in Timestamps, mkdir_ok \in BOOLEAN :
         /\ timestamp' = Some(now)
         /\ IF mkdir_ok
            THEN /\ out_dir' = Some(OutDir(config.output_base_dir, operation_name, now))
                 /\ summary' = NewSummary(operation_name, now, config.backend)
                 /\ previous' = EmptyDict
                 /\ stage' = 1
                 /\ pc' = "run_agent"
                 /\ log' = Append(log, [ev |-> "start"])
            ELSE /\ pc' = "EXC"
                 /\ log' = Append(log, [ev |-> "raise", at |-> "mkdir"])
                 /\ UNCHANGED <<out_dir, summary, previous, stage>>
    /\ UNCHANGED <<script, invocations, fs, user_prompt>>
    /\ UNCHANGED <<settings, config, documents, vendor_latency, operation_name, openai_client,
                   anthropic_client, clients_initialized, ctor_calls,
                   system_prompt, files, r>>

\* r_k = self.agent_k.run(documents, previous, backend=self.config.backend):
\* the agent builds its prompts and calls LLMAgent.run, which initializes the
\* clients on first use and calls one backend path.  An exception leaving
\* the agent would leave run_complete_workflow too.
RunAgent ==
    /\ pc = "run_agent"
    /\ \E openai_ok \in BOOLEAN, anthropic_ok \in BOOLEAN :
         LET clients == InitializeClients(Clients, openai_ok, anthropic_ok)
             path == BackendPath(config.backend)
         IN  \E outcome \in (IF path = "anthropic" THEN AnthropicOutcomes
                             ELSE OpenAIOutcomes) :
               LET prompt == UserPrompt(stage, documents, previous)
                   res == LLMAgentRun(AgentName(stage), prompt, config.backend,
                                      clients, outcome, vendor_latency)
               IN  /\ openai_client' = clients.openai
                   /\ anthropic_client' = clients.anthropic
                   /\ clients_initialized' = clients.initialized
                   /\ ctor_calls' = clients.made
                   /\ system_prompt' =
                        [system_prompt EXCEPT
                           ![stage] = SystemPromptAfterRun(stage, documents, @)]
                   /\ r' = IF res.raised THEN r
                           ELSE [content |-> res.content, meta |-> res.meta]
                   /\ pc' = IF res.raised THEN "EXC" ELSE AfterStep("run_agent", stage)
                   /\ log' = log
                        \o << [ev |-> "agent_run", stage |-> stage, context |-> previous],
                              [ev |-> "adapter_call", stage |-> stage, path |-> res.path,
                               client |-> ClientOf(clients, res.path)] >>
                        \o (IF res.vendor_called
                            THEN << [ev |-> "vendor_call", stage |-> stage,
                                     vendor |-> res.path, outcome |-> outcome] >>
                            ELSE << >>)
                        \o << IF res.raised
                              THEN [ev |-> "agent_raise", stage |-> stage]
                              ELSE [ev |-> "agent_return", stage |-> stage,
                                    content |-> res.content, meta |-> res.meta] >>
    /\ UNCHANGED <<script, invocations, fs, user_prompt, timestamp>>
    /\ UNCHANGED <<settings, config, documents, vendor_latency, operation_name, stage, out_dir,
                   files, previous, summary>>

\* save_result, lines 127-128: md_path.write_text(result.content).
WriteMd ==
    /\ pc = "write_md"
    /\ \E outcome \in WriteOutcomes :
         /\ files' = WriteText(files, MdFile(stage), r.content, outcome)
         /\ pc' = IF outcome = "ok" THEN AfterStep("write_md", stage) ELSE "EXC"
         /\ log' = Append(log, [ev |-> "write_md", stage |-> stage, outcome |-> outcome])
    /\ UNCHANGED <<script, invocations, fs, user_prompt, timestamp>>
    /\ UNCHANGED <<settings, config, documents, vendor_latency, operation_name, openai_client,
                   anthropic_client, clients_initialized, ctor_calls,
                   system_prompt, stage, out_dir, previous, summary, r>>

\* save_result, lines 131-135: meta_path.write_text(json.dumps(result.meta)).
WriteMeta ==
    /\ pc = "write_meta"
    /\ \E outcome \in WriteOutcomes :
         /\ files' = WriteText(files, MetaFile(stage), JsonDumps(r.meta), outcome)
         /\ pc' = IF outcome = "ok" THEN AfterStep("write_meta", stage) ELSE "EXC"
         /\ log' = Append(log, [ev |-> "write_meta", stage |-> stage, outcome |-> outcome])
    /\ UNCHANGED <<script, invocations, fs, user_prompt, timestamp>>
    /\ UNCHANGED <<settings, config, documents, vendor_latency, operation_name, openai_client,
                   anthropic_client, clients_initialized, ctor_calls,
                   system_prompt, stage, out_dir, previous, summary, r>>

\* save_result, lines 138-140: the summary takes the stage's metadata.
UpdateSummary ==
    /\ pc = "update_summary"
    /\ summary' = UpdatedSummary(summary, StageName(stage), r.meta)
    /\ pc' = AfterStep("update_summary", stage)
    /\ log' = Append(log, [ev |-> "update_summary", stage |-> stage])
    /\ UNCHANGED <<script, invocations, fs, user_prompt, timestamp>>
    /\ UNCHANGED <<settings, config, documents, vendor_latency, operation_name, openai_client,
                   anthropic_client, clients_initialized, ctor_calls,
                   system_prompt, stage, out_dir, files, previous, r>>

\* The orchestrator filing only the first line of the content in previous.
SetPrevious_Cuts ==
    /\ pc = "set_previous"
    /\ previous' = Put(previous, StageKey(stage), Prefix(r.content, 10))
    /\ log' = Append(log, [ev |-> "set_previous", stage |-> stage])
    /\ pc' = AfterStep("set_previous", stage)
    /\ stage' = IF pc' = "run_agent" THEN NextStage(stage) ELSE stage
    /\ UNCHANGED <<script, invocations, fs, user_prompt, timestamp>>
    /\ UNCHANGED <<settings, config, documents, vendor_latency, operation_name, openai_client,
                   anthropic_client, clients_initialized, ctor_calls,
                   system_prompt, out_dir, files, summary, r>>

\* previous["agent<k>"] = r_k.content, and on to the next stage.
SetPrevious ==
    /\ pc = "set_previous"
    /\ previous' = Put(previous, StageKey(stage), r.content)
    /\ log' = Append(log, [ev |-> "set_previous", stage |-> stage])
    /\ pc' = AfterStep("set_previous", stage)
    /\ stage' = IF pc' = "run_agent" THEN NextStage(stage) ELSE stage
    /\ UNCHANGED <<script, invocations, fs, user_prompt, timestamp>>
    /\ UNCHANGED <<settings, config, documents, vendor_latency, operation_name, openai_client,
                   anthropic_client, clients_initialized, ctor_calls,
                   system_prompt, out_dir, files, summary, r>>

\* Lines 190-203: the summary is written and the run returns out_dir.
WriteSummary ==
    /\ pc = "write_summary"
    /\ \E outcome \in WriteOutcomes :
         /\ files' = WriteText(files, SummaryFile, JsonDumps(summary), outcome)
         /\ pc' = IF outcome = "ok" THEN AfterStep("write_summary", stage) ELSE "EXC"
         /\ log' = Append(log, [ev |-> "write_summary", outcome |-> outcome])
    /\ UNCHANGED <<script, invocations, fs, user_prompt, timestamp>>
    /\ UNCHANGED <<settings, config, documents, vendor_latency, operation_name, openai_client,
                   anthropic_client, clients_initialized, ctor_calls,
                   system_prompt, stage, out_dir, previous, summary, r>>

\* run_bop_auto.py, lines 98-126: main called the workflow inside try.  When
\* the call returned main reports success and returns; when an exception left
\* the call main reports the failure and exits with status 1.  Either way it
\* removes its temporary text file, which is not in the output directory.
MainReturns ==
    /\ pc = "DONE"
    /\ script.exit_status = None
    /\ script' = [ stdout |-> Append(script.stdout, "WORKFLOW COMPLETED SUCCESSFULLY"),
                   exit_status |-> Some(ExitStatus(FALSE)) ]
    /\ UNCHANGED <<invocations, fs, user_prompt, timestamp>>
    /\ UNCHANGED <<settings, config, documents, vendor_latency, operation_name, openai_client,
                   anthropic_client, clients_initialized, ctor_calls, system_prompt,
                   pc, stage, out_dir, files, previous, summary, r, log>>

MainExcept ==
    /\ pc = "EXC"
    /\ script.exit_status = None
    /\ script' = [ stdout |-> Append(script.stdout, "Workflow failed"),
                   exit_status |-> Some(ExitStatus(TRUE)) ]
    /\ UNCHANGED <<invocations, fs, user_prompt, timestamp>>
    /\ UNCHANGED <<settings, config, documents, vendor_latency, operation_name, openai_client,
                   anthropic_client, clients_initialized, ctor_calls, system_prompt,
                   pc, stage, out_dir, files, previous, summary, r, log>>

Next ==
    \/ Start
    \/ RunAgent
    \/ WriteMd
    \/ WriteMeta
    \/ UpdateSummary
    \/ SetPrevious
    \/ WriteSummary
    \/ MainReturns
    \/ MainExcept

Spec == Init /\ [][Next]_vars

\* The run is one thread that never waits for anything but the vendor call,
\* which returns or raises: every enabled step is eventually taken.
FairSpec == Spec /\ WF_vars(Next)

-----------------------------------------------------------------------------
(* orchestrator.py: ADNOCWorkflow.run and run_integrated_workflow;          *)
(* integrated_compliance_agent.py: the integrated agent's prompt.           *)

IntegratedAgentName == "Integrated Compliance Agent"

RopFile == "integrated_rop_package.md"

RopMetaFile == "integrated_rop_package.meta.json"

\* x or default of Python, for an optional string.
OrElse(x, default) == IF Truthy(x) THEN x.value ELSE default

\* The context run_integrated_workflow builds from the config.
IntegratedContext(cfg, op) ==
    [ rig_name |-> OrElse(cfg.rig_name, "Not specified"),
      operation_type |-> OrElse(cfg.operation_type, op),
      adnoc_cps |-> cfg.adnoc_cps,
      constraints |-> OrElse(cfg.constraints, "None specified") ]

\* for name, content in documents.items(): one section of the prompt.
IntegratedExcerpt(doc) ==
    "## " \o doc[1] \o "\n\n"
    \o (IF Len(doc[2]) > 10000
        THEN Prefix(doc[2], 10000) \o "\n\n[... Document truncated for processing ...]"
        ELSE doc[2])

\* IntegratedComplianceAgent._build_user_prompt: the prompt up to the
\* document sections.
IntegratedPromptHead(context) ==
    LET rig_name == Get(context, "rig_name", "Not specified")
        operation_type == Get(context, "operation_type", "ROP Development")
        adnoc_cps == Get(context, "adnoc_cps", << >>)
        constraints == Get(context, "constraints", "None specified")
        cp_list == Join("\n", [i \in 1..Len(adnoc_cps) |-> "- " \o adnoc_cps[i]])
        cp_section ==
            IF Len(adnoc_cps) > 0
            THEN "\n## Applicable ADNOC Corporate Practices\n\n" \o cp_list \o "\n"
            ELSE ""
    IN  "# Integrated Compliance Analysis Request\n\n## Context\n\n- **Rig Name**: "
        \o rig_name
        \o "\n- **Operation Type**: "
        \o operation_type
        \o "\n- **Constraints**: "
        \o constraints
        \o "\n"
        \o cp_section
        \o "\n\n## Source Documents\n\n"

\* IntegratedComplianceAgent._build_user_prompt: the prompt after the
\* document sections.
IntegratedPromptTail ==
    "\n\n---\n\n## Instructions\n\n"
    \o "Using the integrated compliance template, produce a complete ROP package that includes:\n\n"
    \o "1. **Part 1: Rig Operating Procedure**\n   - Follow ADNOC ROP template structure exactly\n"
    \o "   - All 13 required sections must be present\n"
    \o "   - Include HOLD POINTS and critical controls\n\n2. **Part 2: Gap Analysis Report**\n"
    \o "   - Map against all applicable ADNOC CPs\n   - Identify all gaps with priority ratings\n"
    \o "   - Provide remediation actions for each gap\n\n"
    \o "3. **Part 3: Human Performance Assessment**\n   - Identify error-prone steps\n"
    \o "   - Document HP controls applied\n   - Include verification requirements\n\n"
    \o "4. **Part 4: Equipment Validation Matrix**\n   - List all equipment with catalog numbers\n"
    \o "   - Verify compliance status\n   - Flag any non-compliant items\n\n"
    \o "5. **Part 5: Document Control & Appendices**\n   - Revision history\n"
    \o "   - Distribution list\n   - All supporting matrices\n\n"
    \o "6. **Part 6: Compliance Certification**\n   - Confirm review against all requirements\n"
    \o "   - Signature blocks for approval\n\nEnsure the output is:\n"
    \o "- Field-ready and immediately usable\n- Audit-compliant with full traceability\n"
    \o "- Consistent in terminology and formatting\n"
    \o "- Aligned with ADNOC operational excellence standards\n\n"
    \o "Proceed with the complete integrated analysis.\n"

\* IntegratedComplianceAgent._build_user_prompt.
IntegratedPrompt(docs, context) ==
    LET documents_text ==
            Join("\n\n---\n\n", [i \in 1..Len(docs) |-> IntegratedExcerpt(docs[i])])
    IN  IntegratedPromptHead(context) \o documents_text \o IntegratedPromptTail

\* run_integrated_workflow reading the total under the summary's key instead
\* of the metadata's.
IntegratedSummary_WrongKey(op, stamp, cfg, meta) ==
    [ operation |-> op, timestamp |-> stamp, backend |-> cfg.backend,
      mode |-> "integrated", rig_name |-> cfg.rig_name,
      operation_type |-> cfg.operation_type, agent |-> meta,
      total_tokens |-> Get(meta, "total_tokens", 0),
      total_duration_seconds |-> Get(meta, "total_duration_seconds", 0) ]

\* The summary dict run_integrated_workflow writes.
IntegratedSummary(op, stamp, cfg, meta) ==
    [ operation |-> op, timestamp |-> stamp, backend |-> cfg.backend,
      mode |-> "integrated", rig_name |-> cfg.rig_name,
      operation_type |-> cfg.operation_type, agent |-> meta,
      total_tokens |-> Get(meta, "tokens_total", 0),
      total_duration_seconds |-> Get(meta, "total_duration_seconds", 0) ]

\* ADNOCWorkflow.run dispatching on a mode other than the one configured.
Dispatch_Inverted(mode) == IF mode = "integrated" THEN "START" ELSE "START_INTEGRATED"

\* ADNOCWorkflow.run: the workflow method a mode value dispatches to.
Dispatch(mode) == IF mode = "integrated" THEN "START_INTEGRATED" ELSE "START"

\* A run through ADNOCWorkflow.run starts like a run of the five stages, with
\* any mode configured and the dispatch still to come.
DispatchInit ==
    /\ settings \in [ openai_api_key : ApiKeys, anthropic_api_key : ApiKeys,
                      model_name_openai : {"gpt-4o"},
                      model_name_anthropic : {"claude-3-5-sonnet-20241022"} ]
    /\ config \in DispatchConfigs
    /\ documents = << <<"Doc A", "hello world">> >>
    /\ vendor_latency \in 0..MaxLatency
    /\ operation_name \in OperationNames
    /\ openai_client = None
    /\ anthropic_client = None
    /\ clients_initialized = FALSE
    /\ ctor_calls = [openai |-> 0, anthropic |-> 0]
    /\ system_prompt = [k \in Stages |-> BasePrompt(k)]
    /\ pc = "RUN"
    /\ stage = 0
    /\ out_dir = None
    /\ files = EmptyDict
    /\ previous = EmptyDict
    /\ summary = None
    /\ r = None
    /\ log = << >>
    /\ script = NewScript
    /\ invocations = << >>
    /\ fs = EmptyDict
    /\ user_prompt = None
    /\ timestamp = None

\* ADNOCWorkflow.run, lines 322-325.
Run ==
    /\ pc = "RUN"
    /\ pc' = Dispatch(config.mode)
    /\ log' = Append(log, [ev |-> "run", mode |-> config.mode])
    /\ UNCHANGED <<script, invocations, fs, user_prompt, timestamp>>
    /\ UNCHANGED <<settings, config, documents, vendor_latency, operation_name, openai_client,
                   anthropic_client, clients_initialized, ctor_calls, system_prompt,
                   stage, out_dir, files, previous, summary, r>>

\* run_integrated_workflow, lines 229-232: the output directory is made.
StartIntegrated ==
    /\ pc = "START_INTEGRATED"
    /\ \E now \in Timestamps, mkdir_ok \in BOOLEAN :
         /\ timestamp' = Some(now)
         /\ IF mkdir_ok
            THEN /\ out_dir' = Some(OutDir(config.output_base_dir, operation_name,
                                             "integrated-" \o now))
                 /\ pc' = "run_integrated"
                 /\ log' = Append(log, [ev |-> "start_integrated"])
            ELSE /\ pc' = "EXC"
                 /\ log' = Append(log, [ev |-> "raise", at |-> "mkdir"])
                 /\ UNCHANGED out_dir
    /\ UNCHANGED <<script, invocations, fs, user_prompt>>
    /\ UNCHANGED <<settings, config, documents, vendor_latency, operation_name, openai_client,
                   anthropic_client, clients_initialized, ctor_calls, system_prompt,
                   stage, files, previous, summary, r>>

\* Lines 245-258: the context is built and the integrated agent runs.
RunIntegratedAgent ==
    /\ pc = "run_integrated"
    /\ \E openai_ok \in BOOLEAN, anthropic_ok \in BOOLEAN :
         LET clients == InitializeClients(Clients, openai_ok, anthropic_ok)
             path == BackendPath(config.backend)
         IN  \E outcome \in (IF path = "anthropic" THEN AnthropicOutcomes
                             ELSE OpenAIOutcomes) :
               LET context == IntegratedContext(config, operation_name)
                   prompt == IntegratedPrompt(documents, context)
                   res == LLMAgentRun(IntegratedAgentName, prompt, config.backend,
                                      clients, outcome, vendor_latency)
               IN  /\ openai_client' = clients.openai
                   /\ anthropic_client' = clients.anthropic
                   /\ clients_initialized' = clients.initialized
                   /\ ctor_calls' = clients.made
                   /\ r' = IF res.raised THEN r
                           ELSE [content |-> res.content, meta |-> res.meta]
                   /\ pc' = IF res.raised THEN "EXC" ELSE "write_rop"
                   /\ log' = log
                        \o << [ev |-> "integrated_run", context |-> context] >>
                        \o (IF res.vendor_called
                            THEN << [ev |-> "integrated_vendor_call",
                                     vendor |-> res.path, outcome |-> outcome] >>
                            ELSE << >>)
                        \o << IF res.raised
                              THEN [ev |-> "integrated_raise"]
                              ELSE [ev |-> "integrated_return",
                                    content |-> res.content, meta |-> res.meta] >>
    /\ UNCHANGED <<script, invocations, fs, user_prompt, timestamp>>
    /\ UNCHANGED <<settings, config, documents, vendor_latency, operation_name, system_prompt,
                   stage, out_dir, files, previous, summary>>

\* Lines 262-263: rop_path.write_text(result.content).
WriteRop ==
    /\ pc = "write_rop"
    /\ \E outcome \in WriteOutcomes :
         /\ files' = WriteText(files, RopFile, r.content, outcome)
         /\ pc' = IF outcome = "ok" THEN "write_rop_meta" ELSE "EXC"
         /\ log' = Append(log, [ev |-> "write_rop", outcome |-> outcome])
    /\ UNCHANGED <<script, invocations, fs, user_prompt, timestamp>>
    /\ UNCHANGED <<settings, config, documents, vendor_latency, operation_name, openai_client,
                   anthropic_client, clients_initialized, ctor_calls, system_prompt,
                   stage, out_dir, previous, summary, r>>

\* Lines 266-270: meta_path.write_text(json.dumps(result.meta)).
WriteRopMeta ==
    /\ pc = "write_rop_meta"
    /\ \E outcome \in WriteOutcomes :
         /\ files' = WriteText(files, RopMetaFile, JsonDumps(r.meta), outcome)
         /\ pc' = IF outcome = "ok" THEN "write_integrated_summary" ELSE "EXC"
         /\ log' = Append(log, [ev |-> "write_rop_meta", outcome |-> outcome])
    /\ UNCHANGED <<script, invocations, fs, user_prompt, timestamp>>
    /\ UNCHANGED <<settings, config, documents, vendor_latency, operation_name, openai_client,
                   anthropic_client, clients_initialized, ctor_calls, system_prompt,
                   stage, out_dir, previous, summary, r>>

\* Lines 273-303: the summary is built and written, the run returns out_dir.
WriteIntegratedSummary ==
    /\ pc = "write_integrated_summary"
    /\ summary' = IntegratedSummary(operation_name, timestamp.value, config, r.meta)
    /\ \E outcome \in WriteOutcomes :
         /\ files' = WriteText(files, SummaryFile, JsonDumps(summary'), outcome)
         /\ pc' = IF outcome = "ok" THEN "DONE" ELSE "EXC"
         /\ log' = Append(log, [ev |-> "write_summary", outcome |-> outcome])
    /\ UNCHANGED <<script, invocations, fs, user_prompt, timestamp>>
    /\ UNCHANGED <<settings, config, documents, vendor_latency, operation_name, openai_client,
                   anthropic_client, clients_initialized, ctor_calls, system_prompt,
                   stage, out_dir, previous, r>>

DispatchNext ==
    \/ Run
    \/ Start
    \/ RunAgent
    \/ WriteMd
    \/ WriteMeta
    \/ UpdateSummary
    \/ SetPrevious
    \/ WriteSummary
    \/ StartIntegrated
    \/ RunIntegratedAgent
    \/ WriteRop
    \/ WriteRopMeta
    \/ WriteIntegratedSummary

\* One call of ADNOCWorkflow.run.
DispatchSpec == DispatchInit /\ [][DispatchNext]_vars

-----------------------------------------------------------------------------
(* One process: the Settings singleton, Settings.validate, and LLMAgent.run *)
(* called any number of times for any agent and backend.                    *)

\* validate treating a credential that is set but empty as present.
SettingsValidate_EmptyCounts(s) ==
    IF s.openai_api_key = None /\ s.anthropic_api_key = None
    THEN [ raised |-> TRUE, settings |-> s,
           message |-> "At least one API key must be set: OPENAI_API_KEY or ANTHROPIC_API_KEY" ]
    ELSE [ raised |-> FALSE, settings |-> s ]

\* Settings.validate: whether it raises, with which message, and the settings
\* object after the call.
SettingsValidate(s) ==
    IF ~Truthy(s.openai_api_key) /\ ~Truthy(s.anthropic_api_key)
    THEN [ raised |-> TRUE, settings |-> s,
           message |-> "At least one API key must be set: OPENAI_API_KEY or ANTHROPIC_API_KEY" ]
    ELSE [ raised |-> FALSE, settings |-> s ]

\* The agents whose LLMAgent the process calls.
ProcessAgents == {AgentName(1), IntegratedAgentName}

ProcessInit ==
    /\ settings \in [ openai_api_key : Credentials, anthropic_api_key : Credentials,
                      model_name_openai : {"gpt-4o"},
                      model_name_anthropic : {"claude-3-5-sonnet-20241022"} ]
    /\ config \in {c \in SequentialConfigs : c.backend = "openai"}
    /\ documents = << >>
    /\ vendor_latency \in 0..MaxLatency
    /\ operation_name = ""
    /\ openai_client = None
    /\ anthropic_client = None
    /\ clients_initialized = FALSE
    /\ ctor_calls = [openai |-> 0, anthropic |-> 0]
    /\ system_prompt = [k \in Stages |-> BasePrompt(k)]
    /\ pc = "PROCESS"
    /\ stage = 0
    /\ out_dir = None
    /\ files = EmptyDict
    /\ previous = EmptyDict
    /\ summary = None
    /\ r = None
    /\ log = << >>
    /\ script = NewScript
    /\ invocations = << >>
    /\ fs = EmptyDict
    /\ user_prompt = None
    /\ timestamp = None

\* settings.validate() called by the process, which catches what it raises.
Validate ==
    /\ pc = "PROCESS"
    /\ Len(log) < MaxCalls
    /\ LET res == SettingsValidate(settings)
       IN  /\ settings' = res.settings
           /\ log' = Append(log, [ev |-> "validate", raised |-> res.raised,
                                  settings |-> settings])
    /\ UNCHANGED <<script, invocations, fs, user_prompt, timestamp>>
    /\ UNCHANGED <<config, documents, vendor_latency, operation_name, openai_client,
                   anthropic_client, clients_initialized, ctor_calls, system_prompt,
                   pc, stage, out_dir, files, previous, summary, r>>

\* LLMAgent(name, ...).run(prompt, backend) called by the process.
AdapterCall ==
    /\ pc = "PROCESS"
    /\ Len(log) < MaxCalls
    /\ \E name \in ProcessAgents, backend \in Backends,
          openai_ok \in BOOLEAN, anthropic_ok \in BOOLEAN :
         LET clients == InitializeClients(Clients, openai_ok, anthropic_ok)
             path == BackendPath(backend)
         IN  \E outcome \in (IF path = "anthropic" THEN AnthropicOutcomes
                             ELSE OpenAIOutcomes) :
               LET res == LLMAgentRun(name, "Hello", backend, clients, outcome,
                                      vendor_latency)
               IN  /\ openai_client' = clients.openai
                   /\ anthropic_client' = clients.anthropic
                   /\ clients_initialized' = clients.initialized
                   /\ ctor_calls' = clients.made
                   /\ r' = IF res.raised THEN None
                           ELSE [content |-> res.content, meta |-> res.meta]
                   /\ log' = Append(log,
                        [ev |-> "adapter_call", stage |-> 0, backend |-> backend,
                         path |-> res.path, client |-> ClientOf(clients, res.path),
                         vendor_called |-> res.vendor_called,
                         first |-> ~clients_initialized])
    /\ UNCHANGED <<script, invocations, fs, user_prompt, timestamp>>
    /\ UNCHANGED <<settings, config, documents, vendor_latency, operation_name,
                   system_prompt, pc, stage, out_dir, files, previous, summary>>

ProcessNext ==
    \/ Validate
    \/ AdapterCall

ProcessSpec == ProcessInit /\ [][ProcessNext]_vars

-----------------------------------------------------------------------------
(* Several invocations of run_complete_workflow on one filesystem, their    *)
(* steps interleaved in any way: two processes, or one process calling the  *)
(* method again after it returned.  Only what an invocation does to the     *)
(* filesystem is kept: it makes its output directory and then writes its    *)
(* eleven files in order, each write opening (creating or truncating) the   *)
(* file and then writing and closing it.  Every write succeeds here.        *)

Invocations == {1, 2}

\* The operation names given to the invocations.
RunOperationNames == {"BOP Installation", "BOP Testing", "BOP Testing/"}

\* What time.strftime("%Y%m%d-%H%M%S") can give an invocation: the second it
\* starts in, the same for invocations starting within one second.
RunTimestamps == {"20240101-120000", "20240101-120001"}

\* The files a run writes, in the order it writes them.
RunFiles ==
    [ i \in 1..11 |->
        IF i = 11 THEN SummaryFile
        ELSE IF i % 2 = 1 THEN MdFile((i + 1) \div 2) ELSE MetaFile(i \div 2) ]

ConcurrentInit ==
    /\ settings \in [ openai_api_key : {None}, anthropic_api_key : {None},
                      model_name_openai : {"gpt-4o"},
                      model_name_anthropic : {"claude-3-5-sonnet-20241022"} ]
    /\ config \in {c \in SequentialConfigs : c.backend = "openai"}
    /\ documents = << >>
    /\ vendor_latency = 0
    /\ operation_name = ""
    /\ openai_client = None
    /\ anthropic_client = None
    /\ clients_initialized = FALSE
    /\ ctor_calls = [openai |-> 0, anthropic |-> 0]
    /\ system_prompt = [k \in Stages |-> BasePrompt(k)]
    /\ pc = "CONCURRENT"
    /\ stage = 0
    /\ out_dir = None
    /\ files = EmptyDict
    /\ previous = EmptyDict
    /\ summary = None
    /\ r = None
    /\ log = << >>
    /\ script = NewScript
    /\ invocations \in [ Invocations ->
                           [ operation_name : RunOperationNames, pc : {"START"},
                             timestamp : {None}, out_dir : {None}, next : {1},
                             written : {{}} ] ]
    /\ fs = EmptyDict
    /\ user_prompt = None
    /\ timestamp = None

\* Lines 101-103 of invocation p: the timestamp is taken and the directory
\* made (mkdir with parents and exist_ok: an existing directory is accepted).
InvocationStart(p) ==
    /\ invocations[p].pc = "START"
    /\ \E now \in RunTimestamps :
         invocations' = [invocations EXCEPT
            ![p].timestamp = Some(now),
            ![p].out_dir = Some(OutDir(config.output_base_dir,
                                       invocations[p].operation_name, now)),
            ![p].pc = "open"]
    /\ UNCHANGED <<script, fs, user_prompt, timestamp>>
    /\ UNCHANGED <<settings, config, documents, vendor_latency, operation_name, openai_client,
                   anthropic_client, clients_initialized, ctor_calls, system_prompt,
                   pc, stage, out_dir, files, previous, summary, r, log>>

\* write_text of invocation p's next file, first half: open(path, "w")
\* creates the file or truncates the one that is there.
InvocationOpen(p) ==
    /\ invocations[p].pc = "open"
    /\ LET path == Append(invocations[p].out_dir.value, RunFiles[invocations[p].next])
       IN  /\ fs' = Put(fs, path, [complete |-> FALSE])
           /\ invocations' = [invocations EXCEPT
                ![p].pc = "write",
                ![p].written = @ \cup {path}]
    /\ UNCHANGED <<script, user_prompt, timestamp>>
    /\ UNCHANGED <<settings, config, documents, vendor_latency, operation_name, openai_client,
                   anthropic_client, clients_initialized, ctor_calls, system_prompt,
                   pc, stage, out_dir, files, previous, summary, r, log>>

\* write_text, second half: the data is written and the file closed; the
\* run goes on to its next file or returns.
InvocationWrite(p) ==
    /\ invocations[p].pc = "write"
    /\ LET name == RunFiles[invocations[p].next]
           path == Append(invocations[p].out_dir.value, name)
       IN  /\ fs' = WriteText(fs, path, [by |-> p, name |-> name], "ok")
           /\ invocations' = [invocations EXCEPT
                ![p].pc = IF invocations[p].next = 11 THEN "DONE" ELSE "open",
                ![p].next = IF invocations[p].next = 11 THEN 11 ELSE @ + 1]
    /\ UNCHANGED <<script, user_prompt, timestamp>>
    /\ UNCHANGED <<settings, config, documents, vendor_latency, operation_name, openai_client,
                   anthropic_client, clients_initialized, ctor_calls, system_prompt,
                   pc, stage, out_dir, files, previous, summary, r, log>>

ConcurrentNext ==
    \E p \in Invocations :
        \/ InvocationStart(p)
        \/ InvocationOpen(p)
        \/ InvocationWrite(p)

ConcurrentSpec == ConcurrentInit /\ [][ConcurrentNext]_vars

-----------------------------------------------------------------------------
(* The prompt builders on their own: an agent's run(documents, previous)    *)
(* up to its call of LLMAgent.run, for documents around the budgets.        *)

\* A text of n characters in which no two places within ten look alike.
LongText(n) == Prefix(Repeat("0123456789", (n \div 10) + 1), n)

\* A text of n characters that repeats unit, so that texts of different
\* units differ from their first character on.
LongTextOf(unit, n) == Prefix(Repeat(unit, (n \div Len(unit)) + 1), n)

\* Document lengths around the budgets of the documents: 6000 (agent 4),
\* 8000 (agent 1) and 10000 (the integrated agent).
DocumentLengths == {11, 6001, 7999, 8000, 8001, 8003, 8004, 10000, 10001}

\* The lengths the two documents of a pair have.
PairLengths == {11, 8000, 8001}

\* The text of a document: each label has its own.
DocumentText(label, n) ==
    IF label = "Dana ROP" THEN LongText(n) ELSE LongTextOf("abcdefghij", n)

\* Document sets of one document of each length and of two documents, in
\* either order of insertion.
PromptDocumentSets ==
    { << <<"Dana ROP", DocumentText("Dana ROP", n)>> >> : n \in DocumentLengths }
    \cup
    { << <<"Dana ROP", DocumentText("Dana ROP", n)>>,
         <<"Dana JSA", DocumentText("Dana JSA", m)>> >> :
        n \in PairLengths, m \in PairLengths }
    \cup
    { << <<"Dana JSA", DocumentText("Dana JSA", m)>>,
         <<"Dana ROP", DocumentText("Dana ROP", n)>> >> :
        n \in PairLengths, m \in PairLengths }

\* Lengths of upstream outputs around the budgets 4000, 5000 and 6000 and
\* beyond the largest budget of any prompt.
ContextLengths == {3999, 4001, 5001, 6001, 10004}

\* An upstream output of n characters, each stage's its own.
ContextText(key, n) == LongTextOf(key \o " output. ", n)

\* Run contexts an agent can be given: empty, short outputs of all four
\* upstream stages or of the first only, and long outputs of all four.
PromptContexts ==
    { EmptyDict,
      [ x \in {"agent1", "agent2", "agent3", "agent4"} |->
          CASE x = "agent1" -> "Comparison analysis results"
            [] x = "agent2" -> "Gap analysis results"
            [] x = "agent3" -> "HP evaluation results"
            [] x = "agent4" -> "Equipment validation results" ],
      [ x \in {"agent1"} |-> "Comparison analysis results" ] }
    \cup
    { [ x \in {"agent1", "agent2", "agent3", "agent4"} |-> ContextText(x, n) ] :
        n \in ContextLengths }

PromptInit ==
    /\ settings \in [ openai_api_key : {None}, anthropic_api_key : {None},
                      model_name_openai : {"gpt-4o"},
                      model_name_anthropic : {"claude-3-5-sonnet-20241022"} ]
    /\ config \in {c \in SequentialConfigs : c.backend = "openai"}
    /\ documents \in PromptDocumentSets
    /\ vendor_latency = 0
    /\ operation_name = ""
    /\ openai_client = None
    /\ anthropic_client = None
    /\ clients_initialized = FALSE
    /\ ctor_calls = [openai |-> 0, anthropic |-> 0]
    /\ system_prompt = [k \in Stages |-> BasePrompt(k)]
    /\ pc = "PROMPT"
    /\ stage = 0
    /\ out_dir = None
    /\ files = EmptyDict
    /\ previous \in PromptContexts
    /\ summary = None
    /\ r = None
    /\ log = << >>
    /\ script = NewScript
    /\ invocations = << >>
    /\ fs = EmptyDict
    /\ user_prompt = None
    /\ timestamp = None

\* Agent k's run(documents, previous): the system prompt it installs and the
\* user prompt it hands to LLMAgent.run.
BuildUserPrompt ==
    /\ pc = "PROMPT"
    /\ \E k \in Stages :
         /\ stage' = k
         /\ system_prompt' =
              [system_prompt EXCEPT ![k] = SystemPromptAfterRun(k, documents, @)]
         /\ user_prompt' = Some(UserPrompt(k, documents, previous))
    /\ UNCHANGED <<script, invocations, fs, timestamp>>
    /\ UNCHANGED <<settings, config, documents, vendor_latency, operation_name, openai_client,
                   anthropic_client, clients_initialized, ctor_calls,
                   pc, out_dir, files, previous, summary, r, log>>

\* IntegratedComplianceAgent.run(documents, context) up to its call of
\* LLMAgent.run; the integrated agent is no stage (stage 0).
BuildIntegratedPrompt ==
    /\ pc = "PROMPT"
    /\ stage' = 0
    /\ user_prompt' =
         Some(IntegratedPrompt(documents, IntegratedContext(config, operation_name)))
    /\ UNCHANGED <<script, invocations, fs, timestamp>>
    /\ UNCHANGED <<settings, config, documents, vendor_latency, operation_name, openai_client,
                   anthropic_client, clients_initialized, ctor_calls, system_prompt,
                   pc, out_dir, files, previous, summary, r, log>>

PromptNext ==
    \/ BuildUserPrompt
    \/ BuildIntegratedPrompt

PromptSpec == PromptInit /\ [][PromptNext]_vars

-----------------------------------------------------------------------------
(* Agent objects that live as long as the workflow object: run called on    *)
(* them any number of times, each call with its own documents and its own   *)
(* operation_name argument.                                                 *)

\* The agents called: the two that keep base_prompt and one that does not.
CalledAgents == {2, 3, 4}

\* The documents of a call: none, one short document, and two documents of
\* which the first is longer than the snippet.
CallDocumentSets ==
    { << >>,
      << <<"Doc A", "hello world">> >>,
      << <<"Dana ROP", LongText(1501)>>, <<"Dana JSA", "JOB SAFETY ANALYSIS">> >> }

\* The operation_name argument of a call: left out, empty, given.
CallOperationNames == {None, Some(""), Some("BOP Testing")}

\* Agents 2 and 4 building the system prompt on the one they have, not on
\* base_prompt.
SystemPromptAfterCall_Appends(k, docs, operation, old) ==
    IF k \in {2, 4}
    THEN LET op_label ==
                 OrElse(operation, "the current operation described in the documents")
             first_doc == IF Len(docs) > 0 THEN docs[1][2] ELSE ""
             source_snippet == Prefix(first_doc, 1500)
         IN  old \o "\n\n"
             \o "Operation context: " \o op_label \o ".\n"
             \o "Source document snippet (for grounding):\n"
             \o source_snippet
    ELSE old

\* The system prompt of agent k after run(docs, ..., operation_name) began:
\* agents 2 and 4 install a new one, the others keep theirs.
SystemPromptAfterCall(k, docs, operation, old) ==
    IF k \in {2, 4}
    THEN LET op_label ==
                 OrElse(operation, "the current operation described in the documents")
             first_doc == IF Len(docs) > 0 THEN docs[1][2] ELSE ""
             source_snippet == Prefix(first_doc, 1500)
         IN  BasePrompt(k) \o "\n\n"
             \o "Operation context: " \o op_label \o ".\n"
             \o "Source document snippet (for grounding):\n"
             \o source_snippet
    ELSE old

AgentInit ==
    /\ settings \in [ openai_api_key : {None}, anthropic_api_key : {None},
                      model_name_openai : {"gpt-4o"},
                      model_name_anthropic : {"claude-3-5-sonnet-20241022"} ]
    /\ config \in {c \in SequentialConfigs : c.backend = "openai"}
    /\ documents = << >>
    /\ vendor_latency = 0
    /\ operation_name = ""
    /\ openai_client = None
    /\ anthropic_client = None
    /\ clients_initialized = FALSE
    /\ ctor_calls = [openai |-> 0, anthropic |-> 0]
    /\ system_prompt = [k \in Stages |-> BasePrompt(k)]
    /\ pc = "AGENT"
    /\ stage = 0
    /\ out_dir = None
    /\ files = EmptyDict
    /\ previous = EmptyDict
    /\ summary = None
    /\ r = None
    /\ log = << >>
    /\ script = NewScript
    /\ invocations = << >>
    /\ fs = EmptyDict
    /\ user_prompt = None
    /\ timestamp = None

\* Agent k's run(docs, previous, operation_name=operation) up to its call of
\* LLMAgent.run.
AgentRunCall ==
    /\ pc = "AGENT"
    /\ Len(log) < MaxCalls
    /\ \E k \in CalledAgents, docs \in CallDocumentSets, operation \in CallOperationNames :
         /\ stage' = k
         /\ documents' = docs
         /\ system_prompt' =
              [system_prompt EXCEPT ![k] = SystemPromptAfterCall(k, docs, operation, @)]
         /\ user_prompt' = Some(UserPrompt(k, docs, previous))
         /\ log' = Append(log, [ev |-> "run_call", stage |-> k, documents |-> docs,
                                operation_name |-> operation])
    /\ UNCHANGED <<script, invocations, fs, timestamp>>
    /\ UNCHANGED <<settings, config, vendor_latency, operation_name, openai_client,
                   anthropic_client, clients_initialized, ctor_calls,
                   pc, out_dir, files, previous, summary, r>>

AgentNext == AgentRunCall

AgentSpec == AgentInit /\ [][AgentNext]_vars

-----------------------------------------------------------------------------
(* What the log tells.                                                      *)

\* The events of one kind, in order.
EventsOf(kind) == SelectSeq(log, LAMBDA e : e.ev = kind)

\* The stages whose agent was invoked, in order of invocation.
AgentRunStages ==
    LET runs == EventsOf("agent_run") IN [i \in 1..Len(runs) |-> runs[i].stage]

IsPrefix(s, t) == Len(s) <= Len(t) /\ \A i \in 1..Len(s) : s[i] = t[i]

\* The state of the spec's state machine the run is in.
RunState ==
    CASE pc = "START" -> "START"
      [] pc = "DONE" -> "DONE"
      [] pc = "EXC" -> "EXC"
      [] OTHER -> CASE stage = 1 -> "STAGE_1"
                    [] stage = 2 -> "STAGE_2"
                    [] stage = 3 -> "STAGE_3"
                    [] stage = 4 -> "STAGE_4"
                    [] stage = 5 -> "STAGE_5"
                    [] OTHER -> "STAGE_?"

Transitions ==
    { <<"START", "STAGE_1">>, <<"STAGE_1", "STAGE_2">>, <<"STAGE_2", "STAGE_3">>,
      <<"STAGE_3", "STAGE_4">>, <<"STAGE_4", "STAGE_5">>, <<"STAGE_5", "DONE">> }

\* The content stage j's agent returned, None when it has not returned.
Returned(j) ==
    LET rets == SelectSeq(log, LAMBDA e : e.ev = "agent_return" /\ e.stage = j)
    IN  IF Len(rets) = 0 THEN None ELSE Some(rets[1])

\* The positions of the log holding an event of a kind for a stage.
Positions(kind, k) == {i \in DOMAIN log : log[i].ev = kind /\ log[i].stage = k}

\* The events that belong to a stage.
StageEvents ==
    {"agent_run", "adapter_call", "vendor_call", "agent_return", "agent_raise",
     "write_md", "write_meta", "update_summary", "set_previous"}

-----------------------------------------------------------------------------
(* The claims.                                                              *)

\* C1: in one run the five agents are invoked in the fixed order agent1 ..
\* agent5, each at most once and, when the run is DONE, each exactly once;
\* the run moves START -> STAGE_1 -> ... -> STAGE_5 -> DONE, one transition
\* at a time, never back and never over a stage (or leaves by an exception).
C1_FixedOrder ==
    /\ [](/\ IsPrefix(AgentRunStages, <<1, 2, 3, 4, 5>>)
          /\ (pc = "DONE" => AgentRunStages = <<1, 2, 3, 4, 5>>))
    /\ [][ \/ RunState' = RunState
           \/ RunState' = "EXC"
           \/ <<RunState, RunState'>> \in Transitions ]_vars

\* A completed run: all five agents were invoked.
C1_Witness == pc = "DONE" /\ Len(AgentRunStages) = 5

\* C2: when stage k's agent is invoked, the context it is given holds exactly
\* the keys agent1 .. agent(k-1), each with the content that stage returned.
C2_ContextAtInvocation ==
    \A i \in DOMAIN log :
        log[i].ev = "agent_run" =>
            LET k == log[i].stage
                context == log[i].context
            IN  /\ DOMAIN context = {StageKey(j) : j \in 1..(k - 1)}
                /\ \A j \in 1..(k - 1) :
                     /\ Returned(j) # None
                     /\ context[StageKey(j)] = Returned(j).value.content

\* Stage 5 was invoked, with four earlier contents in its context.
C2_Witness ==
    \E i \in DOMAIN log :
        /\ log[i].ev = "agent_run"
        /\ log[i].stage = 5
        /\ Cardinality(DOMAIN log[i].context) = 4

\* C3: the agent of stage k+1 is called only after stage k's content file and
\* metadata file were written and its content was added to the context; the
\* operations of two stages never overlap: once an operation of a later stage
\* has begun, no operation of an earlier stage follows.
C3_StrictlySequential ==
    /\ \A i \in DOMAIN log :
         (log[i].ev = "agent_run" /\ log[i].stage > 1) =>
            LET k == log[i].stage - 1
            IN  /\ \E a \in Positions("write_md", k) : a < i /\ log[a].outcome = "ok"
                /\ \E a \in Positions("write_meta", k) : a < i /\ log[a].outcome = "ok"
                /\ \E a \in Positions("set_previous", k) : a < i
    /\ LET ops == SelectSeq(log, LAMBDA e : e.ev \in StageEvents)
       IN  \A i \in 1..(Len(ops) - 1) : ops[i].stage <= ops[i + 1].stage

\* Stage 2's agent was called, after stage 1 was persisted.
C3_Witness ==
    /\ Positions("agent_run", 2) # {}
    /\ MdFile(1) \in DOMAIN files
    /\ MetaFile(1) \in DOMAIN files

\* The last event of a kind in the log (there is one).
LastEvent(kind) == LET es == EventsOf(kind) IN es[Len(es)]

\* The exceptions the log records: a failed mkdir, a failed write, a raising agent.
Raises ==
    SelectSeq(log, LAMBDA e :
        \/ e.ev \in {"raise", "agent_raise"}
        \/ (e.ev \in {"write_md", "write_meta", "write_summary"} /\ e.outcome # "ok"))

\* C4: whatever the vendor calls do, no agent call raises and no stage makes
\* more than one adapter call or vendor call; the run ends by an exception
\* only when the filesystem failed, and otherwise reaches DONE having invoked
\* all five stages with one adapter call each, with every returned content,
\* degraded or not, in the run context and the summary written.
C4_AllStagesDespiteFailures ==
    /\ [](/\ EventsOf("agent_raise") = << >>
          /\ \A k \in Stages :
               /\ Cardinality(Positions("adapter_call", k)) <= 1
               /\ Cardinality(Positions("vendor_call", k)) <= 1
          /\ (pc = "EXC" =>
                /\ Len(Raises) = 1
                /\ log[Len(log)].ev \in {"raise", "write_md", "write_meta", "write_summary"}))
    /\ <>( \/ pc = "EXC"
           \/ /\ pc = "DONE"
              /\ AgentRunStages = <<1, 2, 3, 4, 5>>
              /\ \A k \in Stages :
                   /\ Cardinality(Positions("adapter_call", k)) = 1
                   /\ previous[StageKey(k)] = Returned(k).value.content
              /\ SummaryFile \in DOMAIN files
              /\ files[SummaryFile].complete )

\* A completed run in which one vendor call raised and another returned.
C4_Witness ==
    /\ pc = "DONE"
    /\ \E i \in DOMAIN log, j \in DOMAIN log :
         /\ log[i].ev = "vendor_call" /\ log[i].outcome.kind = "raise"
         /\ log[j].ev = "vendor_call" /\ log[j].outcome.kind = "ok"

\* C5: when a client exists and the vendor call raises, the agent call
\* returns (it does not raise) a text holding the agent name and the error
\* message, with metadata whose error entry is the message and which has a
\* duration_seconds entry.
C5_VendorErrorAbsorbed ==
    \A i \in DOMAIN log :
        (log[i].ev = "vendor_call" /\ log[i].outcome.kind = "raise") =>
            LET k == log[i].stage
                message == log[i].outcome.message
            IN  /\ Positions("agent_raise", k) = {}
                /\ Returned(k) # None
                /\ Contains(Returned(k).value.content, AgentName(k))
                /\ Contains(Returned(k).value.content, message)
                /\ "error" \in DOMAIN Returned(k).value.meta
                /\ Returned(k).value.meta.error = message
                /\ "duration_seconds" \in DOMAIN Returned(k).value.meta

\* An Anthropic call raised and the agent returned.
C5_Witness ==
    \E i \in DOMAIN log :
        /\ log[i].ev = "vendor_call"
        /\ log[i].vendor = "anthropic"
        /\ log[i].outcome.kind = "raise"
        /\ Returned(log[i].stage) # None

\* The adapter call that produced r, when the run has just got r.
StubReturned ==
    /\ pc = "write_md"
    /\ LastEvent("adapter_call").client = None

RequiredMetaKeys ==
    {"model", "tokens_prompt", "tokens_completion", "tokens_total", "duration_seconds"}

\* C7 (as claimed): the metadata of every agent result has the model
\* identifier, the three token counts and duration_seconds, whatever the
\* backend and the outcome, so all results have the same keys but for error.
C7_UniformMetadata ==
    \A i \in DOMAIN log :
        log[i].ev = "agent_return" =>
            /\ RequiredMetaKeys \subseteq DOMAIN log[i].meta
            /\ \A j \in DOMAIN log :
                 log[j].ev = "agent_return" =>
                    (DOMAIN log[j].meta) \ {"error"} = (DOMAIN log[i].meta) \ {"error"}

\* The files of the output directory, by what they are.
MetadataFiles == {f \in DOMAIN files : EndsWith(f, ".meta.json")}

ContentFiles == {f \in DOMAIN files : EndsWith(f, ".md")}

SummaryFiles == {f \in DOMAIN files : f = "summary.json"}

\* C8: when the run is DONE its output directory holds exactly five content
\* files, five metadata files and one summary file, all written in full: for
\* each stage one content file and one metadata file named by the stage.
C8_ElevenFiles ==
    pc = "DONE" =>
        /\ Cardinality(ContentFiles) = 5
        /\ Cardinality(MetadataFiles) = 5
        /\ Cardinality(SummaryFiles) = 1
        /\ DOMAIN files = ContentFiles \cup MetadataFiles \cup SummaryFiles
        /\ \A f \in DOMAIN files : files[f].complete
        /\ \A k \in Stages :
             /\ Cardinality({f \in ContentFiles : StartsWith(f, StageKey(k))}) = 1
             /\ Cardinality({f \in MetadataFiles : StartsWith(f, StageKey(k))}) = 1

\* A completed run with a directory of eleven files.
C8_Witness == pc = "DONE" /\ Cardinality(DOMAIN files) = 11

\* The sum of d.get(key, 0) over the first k of a sequence of dicts.
SumOf(metas, key, k) ==
    LET F[i \in 0..k] == IF i = 0 THEN 0 ELSE F[i - 1] + Get(metas[i], key, 0)
    IN  F[k]

\* The stages save_result has been through.
SavedStages == {j \in Stages : Positions("update_summary", j) # {}}

\* The metadata of the stages, as their agents returned it.
ReturnedMetas ==
    [j \in {i \in Stages : Returned(i) # None} |-> Returned(j).value.meta]

\* C9: after k stages were saved the summary lists exactly those k stages in
\* stage order, each entry being the stage's metadata with its name, and its
\* total_tokens and total_duration_seconds are the sums of tokens_total and
\* total_duration_seconds over those k metadata records, a missing field
\* counting 0; the summary file holds that summary, with five entries and
\* the sum of the five metadata files' tokens_total.
C9_SummaryTotals ==
    summary # None =>
        LET k == Len(summary.agents)
        IN  /\ SavedStages = 1..k
            /\ \A j \in 1..k :
                 summary.agents[j] = Merge(ReturnedMetas[j], [name |-> StageName(j)])
            /\ summary.total_tokens = SumOf(ReturnedMetas, "tokens_total", k)
            /\ summary.total_duration_seconds
                 = SumOf(ReturnedMetas, "total_duration_seconds", k)
            /\ (pc = "DONE" =>
                  LET saved == files[SummaryFile].data.json
                      on_disk == [j \in Stages |-> files[MetaFile(j)].data.json]
                  IN  /\ Len(saved.agents) = 5
                      /\ saved.total_tokens = SumOf(on_disk, "tokens_total", 5)
                      /\ saved.total_duration_seconds
                           = SumOf(on_disk, "total_duration_seconds", 5))

\* A completed run whose totals add up two stages with token counts, with a
\* stage that has none and a vendor call that took time.
C9_Witness ==
    /\ pc = "DONE"
    /\ summary.total_tokens = 300
    /\ summary.total_duration_seconds > 1
    /\ \E j \in Stages : "tokens_total" \notin DOMAIN ReturnedMetas[j]

\* The stages whose content file and metadata file are both written in full.
CompletePairs ==
    {k \in Stages :
        /\ MdFile(k) \in DOMAIN files /\ files[MdFile(k)].complete
        /\ MetaFile(k) \in DOMAIN files /\ files[MetaFile(k)].complete}

\* C10: the summary file exists only when the content file and the metadata
\* file of all five stages are written; after an exception raised during
\* stage k the complete file pairs are those of the stages before k (none
\* when the directory could not be made, all five when the summary's write
\* failed).
C10_SummaryLast ==
    /\ (SummaryFile \in DOMAIN files => CompletePairs = Stages)
    /\ (pc = "EXC" =>
          LET last == log[Len(log)]
          IN  CASE last.ev \in StageEvents -> CompletePairs = 1..(last.stage - 1)
                [] last.ev = "write_summary" -> CompletePairs = Stages
                [] OTHER -> CompletePairs = {})

\* The metadata write of stage 3 failed and left a truncated file.
C10_Witness ==
    /\ pc = "EXC"
    /\ stage = 3
    /\ MetaFile(3) \in DOMAIN files
    /\ CompletePairs = {1, 2}

\* The events that are a write of a file.
WriteEvents == {"write_md", "write_meta", "write_summary"}

\* C11: a failed write of a content file, a metadata file or the summary is
\* not caught by the orchestrator: the run ends there by the exception (no
\* later event, so no later agent call), what was written stays as it is, and
\* the top-level script reports the failure and exits with a non-zero status.
C11_WriteFailurePropagates ==
    /\ [](\A i \in DOMAIN log :
            (log[i].ev \in WriteEvents /\ log[i].outcome # "ok") =>
                (i = Len(log) /\ pc = "EXC"))
    /\ [][pc = "EXC" => (pc' = "EXC" /\ files' = files /\ log' = log)]_vars
    /\ []((pc = "EXC" /\ script.exit_status # None) =>
            /\ script.exit_status.value # 0
            /\ script.stdout = <<"Workflow failed">>)
    /\ ((pc = "EXC") ~> (script.exit_status # None))

\* The metadata write of stage 2 failed; stage 1's files and stage 2's
\* content file are still there and the script has exited with status 1.
C11_Witness ==
    /\ pc = "EXC"
    /\ log[Len(log)].ev = "write_meta"
    /\ log[Len(log)].stage = 2
    /\ {MdFile(1), MetaFile(1), MdFile(2)} \subseteq DOMAIN files
    /\ script.exit_status = Some(1)

\* C12: one call of ADNOCWorkflow.run executes one mode only.  With mode
\* "integrated" the integrated agent is invoked, once, and none of the five
\* sequential agents; with any other mode value the five sequential agents
\* are invoked (each once, in order) and the integrated agent never.
C12_OneModePerInvocation ==
    /\ Len(EventsOf("run")) <= 1
    /\ (config.mode = "integrated" =>
          /\ EventsOf("agent_run") = << >>
          /\ Len(EventsOf("integrated_run")) <= 1
          /\ (pc = "DONE" => Len(EventsOf("integrated_run")) = 1))
    /\ (config.mode # "integrated" =>
          /\ EventsOf("integrated_run") = << >>
          /\ IsPrefix(AgentRunStages, <<1, 2, 3, 4, 5>>)
          /\ (pc = "DONE" => AgentRunStages = <<1, 2, 3, 4, 5>>))

\* A run with a mode value the code does not name completed the five stages.
C12_Witness ==
    /\ config.mode = "parallel"
    /\ pc = "DONE"
    /\ AgentRunStages = <<1, 2, 3, 4, 5>>

\* C13: an integrated run makes one agent call (and at most one vendor
\* call); when it is DONE its directory holds exactly one content file, one
\* metadata file and the summary, all written in full, and the summary's
\* total_tokens and total_duration_seconds are the tokens_total and the
\* total_duration_seconds of the one metadata record, 0 when it has none.
C13_IntegratedOutputs ==
    config.mode = "integrated" =>
        /\ Len(EventsOf("integrated_run")) <= 1
        /\ Len(EventsOf("integrated_vendor_call")) <= 1
        /\ (pc = "DONE" =>
              /\ Len(EventsOf("integrated_run")) = 1
              /\ ContentFiles = {RopFile}
              /\ MetadataFiles = {RopMetaFile}
              /\ SummaryFiles = {SummaryFile}
              /\ DOMAIN files = {RopFile, RopMetaFile, SummaryFile}
              /\ \A f \in DOMAIN files : files[f].complete
              /\ LET saved == files[SummaryFile].data.json
                     meta == files[RopMetaFile].data.json
                 IN  /\ meta = LastEvent("integrated_return").meta
                     /\ files[RopFile].data = LastEvent("integrated_return").content
                     /\ saved.total_tokens =
                          (IF "tokens_total" \in DOMAIN meta THEN meta.tokens_total ELSE 0)
                     /\ saved.total_duration_seconds =
                          (IF "total_duration_seconds" \in DOMAIN meta
                           THEN meta.total_duration_seconds ELSE 0))

\* An integrated run completed whose one vendor call returned token counts
\* after some time.
C13_Witness ==
    /\ config.mode = "integrated"
    /\ pc = "DONE"
    /\ files[SummaryFile].data.json.total_tokens = 150
    /\ files[SummaryFile].data.json.total_duration_seconds > 0

\* C14 (as claimed): the summary a run wrote has a mode field that tells the
\* mode that was executed: "integrated" after an integrated run, the
\* sequential mode after a run of the five stages.
C14_SummaryHasMode ==
    (pc = "DONE" /\ SummaryFile \in DOMAIN files) =>
        LET saved == files[SummaryFile].data.json
        IN  /\ "mode" \in DOMAIN saved
            /\ (saved.mode = "integrated") = (EventsOf("integrated_run") # << >>)
            /\ (saved.mode = "sequential") = (EventsOf("agent_run") # << >>)

\* C15: over any sequence of adapter calls of one process, for any agents and
\* backends, each vendor's client constructor is called at most once, and
\* only during the first adapter call; from then on the stored clients never
\* change and every call uses the client stored for its backend path.
C15_ClientsMadeOnce ==
    /\ [](/\ ctor_calls.openai <= 1
          /\ ctor_calls.anthropic <= 1
          /\ (EventsOf("adapter_call") = << >> =>
                ctor_calls = [openai |-> 0, anthropic |-> 0])
          /\ (EventsOf("adapter_call") # << >> =>
                /\ clients_initialized
                /\ ctor_calls.openai = (IF Truthy(settings.openai_api_key) THEN 1 ELSE 0)
                /\ ctor_calls.anthropic
                     = (IF Truthy(settings.anthropic_api_key) THEN 1 ELSE 0))
          /\ \A i \in DOMAIN log :
               log[i].ev = "adapter_call" =>
                  /\ log[i].client = ClientOf(Clients, log[i].path)
                  /\ (log[i].client # None => log[i].client.value.serial = 1))
    /\ [][EventsOf("adapter_call") # << >> =>
            /\ openai_client' = openai_client
            /\ anthropic_client' = anthropic_client
            /\ ctor_calls' = ctor_calls]_vars

\* Three adapter calls, of both backend paths, used clients made once.
C15_Witness ==
    /\ Len(EventsOf("adapter_call")) = 3
    /\ \E i \in DOMAIN log, j \in DOMAIN log :
         /\ log[i].ev = "adapter_call" /\ log[j].ev = "adapter_call"
         /\ log[i].path = "openai" /\ log[j].path = "anthropic"
         /\ log[i].client # None /\ log[j].client # None
    /\ ctor_calls = [openai |-> 1, anthropic |-> 1]

\* A credential that is absent: unset, or set to the empty string.
Absent(key) == key = None \/ key = Some("")

\* C18: Settings.validate raises exactly when neither credential is present,
\* an empty string counting as absent; with at least one non-empty credential
\* it returns; either way it leaves the settings and the clients as they were.
C18_ValidateIffNoCredential ==
    /\ [](\A i \in DOMAIN log :
            log[i].ev = "validate" =>
               /\ log[i].raised =
                    (Absent(log[i].settings.openai_api_key)
                       /\ Absent(log[i].settings.anthropic_api_key))
               /\ settings = log[i].settings)
    /\ [][(log' # log /\ log'[Len(log')].ev = "validate") =>
            UNCHANGED <<settings, openai_client, anthropic_client,
                        clients_initialized, ctor_calls, r>>]_vars

\* validate raised for an empty OpenAI credential and no Anthropic one, and
\* returned for an empty credential next to a set one.
C18_Witness ==
    \E i \in DOMAIN log :
        /\ log[i].ev = "validate"
        /\ log[i].raised
        /\ log[i].settings.openai_api_key = Some("")
        /\ log[i].settings.anthropic_api_key = None

\* C19 (as claimed): with no credential for either backend a workflow run
\* fails at validation before any stage runs: no agent is invoked, no stage
\* file is written, and the run does not complete.
C19_FailsFastWithoutCredential ==
    (Absent(settings.openai_api_key) /\ Absent(settings.anthropic_api_key)) =>
        /\ EventsOf("agent_run") = << >>
        /\ files = EmptyDict
        /\ pc # "DONE"

\* The files directly inside a directory of the shared filesystem.
FilesIn(dir) ==
    {path \in DOMAIN fs : Len(path) = Len(dir) + 1 /\ SubSeq(path, 1, Len(dir)) = dir}

\* C16 (as claimed): two runs with the same base directory and two different
\* operation names write to two different output directories that share no
\* file, and each directory holds, once its run completed, that run's five
\* stage file pairs and summary, whatever the timestamps of the two runs.
C16_DisjointDirectories ==
    \A p \in Invocations, q \in Invocations :
        (p # q /\ invocations[p].operation_name # invocations[q].operation_name) =>
            /\ (invocations[p].out_dir # None /\ invocations[q].out_dir # None =>
                  invocations[p].out_dir # invocations[q].out_dir)
            /\ invocations[p].written \cap invocations[q].written = {}
            /\ (invocations[p].pc = "DONE" =>
                  LET mine == FilesIn(invocations[p].out_dir.value)
                  IN  /\ Cardinality(mine) = 11
                      /\ \A path \in mine : /\ fs[path].complete
                                            /\ fs[path].data.by = p)

\* C17 (as claimed): invocations running concurrently never interfere: each
\* writes only to its own output location, so no file one of them wrote or
\* is writing is written, overwritten or truncated by another, for any
\* interleaving of their steps and any start times.
C17_NoInterference ==
    \A p \in Invocations, q \in Invocations :
        p # q =>
            /\ (invocations[p].out_dir # None /\ invocations[q].out_dir # None =>
                  invocations[p].out_dir # invocations[q].out_dir)
            /\ invocations[p].written \cap invocations[q].written = {}
            /\ (invocations[p].pc = "DONE" =>
                  \A path \in invocations[p].written :
                      fs[path].complete /\ fs[path].data.by = p)

\* The fixed text agent 1's user prompt begins with.
ComparisonHeader ==
    "You are given multiple rig procedures and JSAs for BOP operations.\n"
    \o "Perform a comprehensive inventory, structure mapping, and detailed comparison.\n\n"
    \o "# Documents\n\n"

\* How many characters document i contributes to agent 1's prompt when the
\* claim holds: its first 8000 and the three of the marker, or all of it.
ContributionLen(i) ==
    IF Len(documents[i][2]) > 8000 THEN 8000 + 3 ELSE Len(documents[i][2])

\* Where the section of document i begins in agent 1's prompt, the sections
\* being "### label", an empty line and the contribution, an empty line apart.
SectionStart(i) ==
    LET F[j \in 1..i] ==
            IF j = 1 THEN Len(ComparisonHeader) + 1
            ELSE F[j - 1] + Len("### " \o documents[j - 1][1] \o "\n\n")
                   + ContributionLen(j - 1) + Len("\n\n")
    IN  F[i]

\* C20: in agent 1's user prompt every document has a section headed by its
\* label; a document longer than 8000 characters contributes exactly its
\* first 8000 characters followed by "..." (less than the document when it
\* is longer than 8003), a document of at most 8000 characters contributes
\* its full text and no marker, and the prompt holds nothing else.
C20_ComparisonTruncation ==
    (stage = 1 /\ user_prompt # None) =>
        LET prompt == user_prompt.value
            n == Len(documents)
        IN  /\ SubSeq(prompt, 1, Len(ComparisonHeader)) = ComparisonHeader
            /\ \A i \in 1..n :
                 LET label == "### " \o documents[i][1] \o "\n\n"
                     text == documents[i][2]
                     from == SectionStart(i) + Len(label)
                     contribution == SubSeq(prompt, from, from + ContributionLen(i) - 1)
                     after == from + ContributionLen(i)
                 IN  /\ SubSeq(prompt, SectionStart(i), from - 1) = label
                     /\ (Len(text) > 8000 =>
                           /\ SubSeq(contribution, 1, 8000) = SubSeq(text, 1, 8000)
                           /\ SubSeq(contribution, 8001, 8003) = "..."
                           /\ Len(contribution) = 8003
                           /\ (Len(text) > 8003 => Len(contribution) < Len(text)))
                     /\ (Len(text) <= 8000 => contribution = text)
                     /\ IF i = n THEN Len(prompt) = after - 1
                        ELSE SubSeq(prompt, after, after + 1) = "\n\n"

\* Agent 1 built its prompt for a document of 8001 characters, whose
\* contribution is longer than the document, next to one of 8000.
C20_Witness ==
    /\ stage = 1
    /\ user_prompt # None
    /\ Len(documents) = 2
    /\ Len(documents[1][2]) = 8001
    /\ Len(documents[2][2]) = 8000

-----------------------------------------------------------------------------
(* The layout of the user prompts: each is a run of slots, a slot being the *)
(* fixed text before it, the text placed in it, the budget the text is cut  *)
(* to (None where the source cuts nothing) and the marker of a cut; after   *)
(* the last slot comes the fixed tail.                                      *)

Slot(before, text, budget, marker) ==
    [before |-> before, text |-> text, budget |-> budget, marker |-> marker]

\* Agent 1: one slot per document.
ComparisonSlots(docs, prev) ==
    [ i \in 1..Len(docs) |->
        Slot((IF i = 1 THEN ComparisonHeader ELSE "\n\n")
               \o "### " \o docs[i][1] \o "\n\n",
             docs[i][2], Some(8000), "...") ]

\* Agent 2: the output of stage 1, whole.
GapDetectorSlots(docs, prev) ==
    << Slot("You are analyzing BOP procedures for gaps and misalignments.\n\n"
              \o "# Agent 1 Comparison Output\n\n",
            Get(prev, "agent1", ""), None, "...") >>

\* Agent 3: the outputs of stages 1 and 2.
HPEvaluatorSlots(docs, prev) ==
    << Slot("You are evaluating human performance factors in BOP procedures.\n\n"
              \o "# Agent 1 Comparison Output\n\n",
            Get(prev, "agent1", ""), Some(6000), "..."),
       Slot("\n\n# Agent 2 Gap Analysis\n\n",
            Get(prev, "agent2", ""), Some(4000), "...") >>

EquipmentValidatorHeader ==
    "You are validating equipment specifications for BOP standardization.\n\n"
    \o "# Documents (Equipment Sections)\n\n"

\* Agent 4: one slot per document, then the output of stage 1.
EquipmentValidatorSlots(docs, prev) ==
    [ i \in 1..Len(docs) |->
        Slot((IF i = 1 THEN EquipmentValidatorHeader ELSE "\n\n")
               \o "### " \o docs[i][1] \o "\n\n",
             docs[i][2], Some(6000), "...") ]
    \o << Slot((IF Len(docs) = 0 THEN EquipmentValidatorHeader ELSE "")
                 \o "\n\n# Agent 1 Comparison (for context)\n\n",
               Get(prev, "agent1", ""), Some(4000), "...") >>

\* Agent 5: the outputs of stages 1 to 4.
StandardisationWriterSlots(docs, prev) ==
    << Slot("You are creating the final standardized BOP procedures.\n\n"
              \o "# Agent 1 - Comparison Analysis\n\n",
            Get(prev, "agent1", ""), Some(5000), "..."),
       Slot("\n\n# Agent 2 - Gap Analysis\n\n",
            Get(prev, "agent2", ""), Some(4000), "..."),
       Slot("\n\n# Agent 3 - HP Evaluation\n\n",
            Get(prev, "agent3", ""), Some(4000), "..."),
       Slot("\n\n# Agent 4 - Equipment Validation\n\n",
            Get(prev, "agent4", ""), Some(4000), "...") >>

\* The integrated agent: one slot per document.
IntegratedSlots(docs, context) ==
    [ i \in 1..Len(docs) |->
        Slot((IF i = 1
              THEN IntegratedPromptHead(context)
              ELSE "\n\n---\n\n")
               \o "## " \o docs[i][1] \o "\n\n",
             docs[i][2], Some(10000),
             "\n\n[... Document truncated for processing ...]") ]

\* The slots of the prompt agent k builds (0: the integrated agent) from
\* the docs and the run context.
SlotsOf(k, docs, prev) ==
    CASE k = 0 -> IntegratedSlots(docs, IntegratedContext(config, operation_name))
      [] k = 1 -> ComparisonSlots(docs, prev)
      [] k = 2 -> GapDetectorSlots(docs, prev)
      [] k = 3 -> HPEvaluatorSlots(docs, prev)
      [] k = 4 -> EquipmentValidatorSlots(docs, prev)
      [] k = 5 -> StandardisationWriterSlots(docs, prev)

\* The slots of the prompt built last.
PromptSlots == SlotsOf(stage, documents, previous)

\* The fixed text after the last slot.
PromptTail ==
    CASE stage = 0 -> IntegratedPromptTail
      [] stage = 1 -> ""
      [] stage = 2 ->
           "\n\nBased on this comparison, identify all gaps, missing steps, hazards, and misalignments."
      [] stage = 3 ->
           "\n\nEvaluate human performance maturity, critical controls, and error prevention."
      [] stage = 4 ->
           "\n\nExtract and compare all equipment specifications. Assess standardization feasibility."
      [] stage = 5 ->
           "\n\nSynthesize all findings into a comprehensive standardized ROP and JSA."

\* Whether the text of a slot is longer than its budget, and how much of it
\* the prompt shows.
Over(slot) == slot.budget # None /\ Len(slot.text) > slot.budget.value

ShownLen(slot) == IF Over(slot) THEN slot.budget.value ELSE Len(slot.text)

\* The prompt read slot by slot from position pos on: for each slot whether
\* its fixed text is where it is expected, the characters shown of its text,
\* and whether the marker follows them; and where the tail begins.
RECURSIVE Parsed(_, _, _, _, _)
Parsed(prompt, slots, i, pos, acc) ==
    IF i > Len(slots) THEN [parts |-> acc, rest |-> pos]
    ELSE LET slot == slots[i]
             from == pos + Len(slot.before)
             after == from + ShownLen(slot)
             marked == Slice(prompt, after, after + Len(slot.marker) - 1) = slot.marker
             part == [ before |-> Slice(prompt, pos, from - 1),
                       shown |-> Slice(prompt, from, after - 1),
                       marked |-> marked ]
         IN  Parsed(prompt, slots, i + 1,
                    IF marked THEN after + Len(slot.marker) ELSE after,
                    Append(acc, part))

\* The prompt built last, read slot by slot.
ParsedPrompt == Parsed(user_prompt.value, PromptSlots, 1, 1, << >>)

\* Every fixed text is where the layout says: the slots are the prompt's.
LayoutAgrees ==
    user_prompt # None =>
        /\ \A i \in 1..Len(PromptSlots) :
             /\ ParsedPrompt.parts[i].before = PromptSlots[i].before
             /\ ParsedPrompt.parts[i].shown = Prefix(PromptSlots[i].text, ShownLen(PromptSlots[i]))
        /\ Slice(user_prompt.value, ParsedPrompt.rest, Len(user_prompt.value)) = PromptTail

\* C21: in the user prompt of every agent (stages 1 to 5 and the integrated
\* agent) a marker follows the shown part of a document or of an upstream
\* output if and only if that text is longer than its budget and was cut.
C21_MarkerIffCut ==
    user_prompt # None =>
        \A i \in 1..Len(PromptSlots) :
            ParsedPrompt.parts[i].marked <=> Over(PromptSlots[i])

\* How many of the slots of agent k hold documents; the rest hold upstream
\* outputs, of these stages in this order.
DocumentSlots(k, docs) == IF k \in {0, 1, 4} THEN Len(docs) ELSE 0

UpstreamKeys(k) ==
    CASE k \in {0, 1} -> << >>
      [] k \in {2, 4} -> << "agent1" >>
      [] k = 3 -> << "agent1", "agent2" >>
      [] k = 5 -> << "agent1", "agent2", "agent3", "agent4" >>

\* What slot i contributes to a prompt read as parsed: the characters shown
\* and the marker when it follows.
Contribution(parsed, slots, i) ==
    parsed.parts[i].shown \o (IF parsed.parts[i].marked THEN slots[i].marker ELSE "")

\* The prompt agent k builds.
PromptOf(k, docs, prev) ==
    IF k = 0 THEN IntegratedPrompt(docs, IntegratedContext(config, operation_name))
    ELSE UserPrompt(k, docs, prev)

\* The contributions of all slots of the prompt agent k builds from docs and
\* prev.
Contributions(k, docs, prev) ==
    LET slots == SlotsOf(k, docs, prev)
        parsed == Parsed(PromptOf(k, docs, prev), slots, 1, 1, << >>)
    IN  [i \in 1..Len(slots) |-> Contribution(parsed, slots, i)]

\* The inputs of agent k with every text it places in its prompt replaced by
\* what the prompt shows of it: the rule's own output as its input.
Recut(k, docs, prev) ==
    LET out == Contributions(k, docs, prev)
        n == DocumentSlots(k, docs)
        keys == UpstreamKeys(k)
    IN  [ docs |-> [i \in 1..Len(docs) |->
                      << docs[i][1], IF i <= n THEN out[i] ELSE docs[i][2] >>],
          prev |-> [x \in DOMAIN prev |->
                      IF \E j \in 1..Len(keys) : keys[j] = x
                      THEN out[n + (CHOOSE j \in 1..Len(keys) : keys[j] = x)]
                      ELSE prev[x]] ]

\* C22: truncation is idempotent: for the agent that built its prompt, every
\* text it placed in the prompt, cut by the agent's rule, is left unchanged
\* when the agent applies the rule to it again (builds its prompt from the
\* texts as the first prompt shows them).
C22_TruncationIdempotent ==
    user_prompt # None =>
        LET again == Recut(stage, documents, previous)
        IN  Contributions(stage, again.docs, again.prev)
              = Contributions(stage, documents, previous)

\* The budget the stage-5 prompt gives the output filed under a key.
WriterBudget(key) == IF key = "agent1" THEN 5000 ELSE 4000

\* C23: the stage-5 user prompt has one section for each of the stages 1 to
\* 4, each under its heading: for a key present in the run context the
\* section shows that key's content cut to its budget (5000 characters for
\* agent1, 4000 for agent2, agent3 and agent4), for an absent key it shows
\* nothing; and the prompt holds nothing else but the fixed text.
C23_WriterIncludesContext ==
    (stage = 5 /\ user_prompt # None) =>
        /\ \A j \in 1..4 :
             LET key == UpstreamKeys(5)[j]
                 part == ParsedPrompt.parts[j]
             IN  /\ part.before = PromptSlots[j].before
                 /\ part.shown = (IF key \in DOMAIN previous
                                  THEN Prefix(previous[key], WriterBudget(key))
                                  ELSE "")
                 /\ key \in DOMAIN previous /\ Len(previous[key]) > WriterBudget(key)
                      => Len(part.shown) = WriterBudget(key)
        /\ Slice(user_prompt.value, ParsedPrompt.rest, Len(user_prompt.value)) = PromptTail

\* Agent 5 built its prompt from a run context whose four outputs are all
\* longer than their budgets.
C23_Witness ==
    /\ stage = 5
    /\ user_prompt # None
    /\ DOMAIN previous = {"agent1", "agent2", "agent3", "agent4"}
    /\ \A key \in DOMAIN previous : Len(previous[key]) = 5001

\* The largest budget any stage gives an upstream output (agent 3, agent1).
LargestUpstreamBudget == 6000

\* C24: in the user prompt of each of the stages 2, 3, 4 and 5, what an
\* upstream output contributes is no longer than that stage's budget for it
\* plus the marker, however long the output is (for a stage whose budget the
\* source does not name: no longer than the largest budget of any stage).
C24_UpstreamOutputsCut ==
    (user_prompt # None /\ stage \in 2..5) =>
        \A j \in 1..Len(UpstreamKeys(stage)) :
            LET i == DocumentSlots(stage, documents) + j
                slot == PromptSlots[i]
                budget == IF slot.budget = None THEN LargestUpstreamBudget
                          ELSE slot.budget.value
            IN  Len(Contribution(ParsedPrompt, PromptSlots, i)) <= budget + Len(slot.marker)

\* The calls of LLMAgent.run the process made, in order.
AdapterCalls == EventsOf("adapter_call")

\* The path a result of LLMAgent.run comes from, told by what only that path
\* puts in it: the model name, or the vendor named in the stub or error text.
ResultPath(res) ==
    IF "model" \in DOMAIN res.meta
    THEN IF res.meta.model = settings.model_name_anthropic THEN "anthropic" ELSE "openai"
    ELSE IF Contains(res.content, "ANTHROPIC_API_KEY")
             \/ Contains(res.content, "Error calling Anthropic")
         THEN "anthropic"
         ELSE "openai"

\* C25: every call of LLMAgent.run takes one backend path: the Anthropic
\* path when the backend value is "anthropic" and the OpenAI path for every
\* other value, recognized or not; the result it returns is that path's and
\* carries the backend value as given.
C25_OneBackendPath ==
    /\ \A i \in 1..Len(AdapterCalls) :
         LET e == AdapterCalls[i]
         IN  /\ e.path \in {"openai", "anthropic"}
             /\ e.path = "anthropic" <=> e.backend = "anthropic"
    /\ (Len(log) > 0 /\ log[Len(log)].ev = "adapter_call") =>
         /\ r # None
         /\ r.meta.backend = log[Len(log)].backend
         /\ ResultPath(r) = log[Len(log)].path
         /\ ResultPath(r) = "anthropic" <=> log[Len(log)].backend = "anthropic"

\* A call with a backend value the code does not know went to the vendor on
\* the OpenAI path, after a call on the Anthropic path.
C25_Witness ==
    /\ Len(AdapterCalls) >= 2
    /\ AdapterCalls[1].backend = "anthropic"
    /\ AdapterCalls[1].path = "anthropic"
    /\ log[Len(log)].ev = "adapter_call"
    /\ log[Len(log)].backend = "gemini"
    /\ log[Len(log)].path = "openai"
    /\ log[Len(log)].vendor_called

\* The same label-to-text pairs inserted in the opposite order.
Reordered(docs) == [i \in 1..Len(docs) |-> docs[Len(docs) + 1 - i]]

\* C26: the order of the entries of the document set is irrelevant: the
\* stage that built its prompts last builds the same system prompt and the
\* same user prompt from the same pairs in the opposite order and the same
\* run context.
C26_DocumentOrderIrrelevant ==
    (user_prompt # None /\ stage \in Stages) =>
        /\ UserPrompt(stage, Reordered(documents), previous) = user_prompt.value
        /\ SystemPromptAfterRun(stage, Reordered(documents), system_prompt[stage])
             = system_prompt[stage]

\* C27: during a five-stage run no step changes the document set, and no
\* step changes or removes an entry of the run context once it is there;
\* every entry is filed under its stage's identifier and is exactly the
\* content that stage's agent returned, which is also the content of the
\* stage's file.
C27_ContextNeverMutated ==
    /\ [](/\ DOMAIN previous \subseteq {StageKey(j) : j \in Stages}
          /\ \A j \in Stages :
               StageKey(j) \in DOMAIN previous =>
                 /\ Returned(j) # None
                 /\ previous[StageKey(j)] = Returned(j).value.content
                 /\ MdFile(j) \in DOMAIN files
                 /\ files[MdFile(j)] = [complete |-> TRUE, data |-> previous[StageKey(j)]])
    /\ [][/\ documents' = documents
          /\ \A key \in DOMAIN previous :
               key \in DOMAIN previous' /\ previous'[key] = previous[key]]_vars

\* A run of two documents completed with all five entries in the context.
C27_Witness ==
    /\ pc = "DONE"
    /\ Len(documents) = 2
    /\ DOMAIN previous = {StageKey(j) : j \in Stages}

\* Every event of kind a for stage j is in the log before every event of
\* kind b for stage j, and b does not happen without a.
Precedes(a, b, j) ==
    /\ Positions(b, j) # {} => Positions(a, j) # {}
    /\ \A x \in Positions(a, j), y \in Positions(b, j) : x < y

\* C28: within each stage the steps happen in this order: the agent is
\* invoked, the content file is written, the metadata file is written, the
\* content is added to the run context, and only then the totals are
\* accumulated into the summary.
C28_StepOrderWithinStage ==
    \A j \in Stages :
        /\ Precedes("agent_run", "write_md", j)
        /\ Precedes("write_md", "write_meta", j)
        /\ Precedes("write_meta", "set_previous", j)
        /\ Precedes("set_previous", "update_summary", j)

\* The calls of agent k's run, in order.
RunCalls(k) == SelectSeq(log, LAMBDA e : e.ev = "run_call" /\ e.stage = k)

\* The label of the operation-context line for an operation_name argument.
OperationLabel(operation) ==
    IF operation = None \/ operation = Some("")
    THEN "the current operation described in the documents"
    ELSE operation.value

\* C29: after any number of calls of run on the same gap detector (agent 2)
\* or equipment validator (agent 4) the system prompt is the base prompt
\* followed by the operation-context line and the first 1500 characters of
\* the first document of the most recent call (nothing of earlier calls,
\* however many there were), and the base prompt before the first call; an
\* agent that keeps no base prompt keeps the prompt it was made with.
C29_SystemPromptRebuilt ==
    /\ \A k \in {2, 4} :
         LET calls == RunCalls(k)
         IN  IF Len(calls) = 0 THEN system_prompt[k] = BasePrompt(k)
             ELSE LET last == calls[Len(calls)]
                      first_doc == IF Len(last.documents) = 0 THEN ""
                                   ELSE last.documents[1][2]
                  IN  system_prompt[k] =
                        BasePrompt(k) \o "\n\nOperation context: "
                          \o OperationLabel(last.operation_name)
                          \o ".\nSource document snippet (for grounding):\n"
                          \o Slice(first_doc, 1, 1500)
    /\ \A k \in Stages \ {2, 4} : system_prompt[k] = BasePrompt(k)

\* Agent 2 was called three times, first with a long first document and an
\* operation name, last with one short document and no operation name.
C29_Witness ==
    /\ Len(RunCalls(2)) = 3
    /\ Len(RunCalls(2)[1].documents) = 2
    /\ RunCalls(2)[1].operation_name = Some("BOP Testing")
    /\ Len(RunCalls(2)[3].documents) = 1
    /\ RunCalls(2)[3].operation_name = None

\* The credential of a vendor.
CredentialOf(vendor) ==
    IF vendor = "anthropic" THEN settings.anthropic_api_key ELSE settings.openai_api_key

\* C30: the first adapter call, for either backend, initializes the clients
\* of both backends in that one step: from it on the clients are marked
\* initialized, the constructor of a vendor whose credential is present was
\* called once and that of a vendor whose credential is absent never.  The
\* outcome is permanent: a backend left without a client (credential absent
\* or construction failed) has none at every later call, each of which
\* returns the stub output without calling the vendor, and no constructor
\* is called again.
C30_InitializationPermanent ==
    /\ [](/\ (AdapterCalls = << >>) <=> ~clients_initialized
          /\ \A i \in 1..Len(AdapterCalls) : AdapterCalls[i].first <=> i = 1
          /\ AdapterCalls # << >> =>
               \A vendor \in {"openai", "anthropic"} :
                  /\ Absent(CredentialOf(vendor)) =>
                       ClientOf(Clients, vendor) = None /\ ctor_calls[vendor] = 0
                  /\ ~Absent(CredentialOf(vendor)) => ctor_calls[vendor] = 1
          /\ \A i \in 1..Len(AdapterCalls) :
               ClientOf(Clients, AdapterCalls[i].path) = None =>
                  /\ AdapterCalls[i].client = None
                  /\ ~AdapterCalls[i].vendor_called
          /\ (/\ Len(log) > 0
              /\ log[Len(log)].ev = "adapter_call"
              /\ ClientOf(Clients, log[Len(log)].path) = None) =>
                 /\ r # None
                 /\ Contains(r.content, "not set; returning stub output."))
    /\ [][clients_initialized =>
            /\ clients_initialized'
            /\ ctor_calls' = ctor_calls
            /\ (openai_client = None => openai_client' = None)
            /\ (anthropic_client = None => anthropic_client' = None)]_vars

\* The first call took the OpenAI path with no OpenAI credential; the
\* construction of the Anthropic client failed in it, and two later calls
\* for Anthropic returned the stub.
C30_Witness ==
    /\ Len(AdapterCalls) = 3
    /\ Absent(settings.openai_api_key)
    /\ ~Absent(settings.anthropic_api_key)
    /\ anthropic_client = None
    /\ ctor_calls = [openai |-> 0, anthropic |-> 1]
    /\ AdapterCalls[1].path = "openai"
    /\ AdapterCalls[2].path = "anthropic"
    /\ AdapterCalls[3].path = "anthropic"
    /\ \A i \in 1..3 : ~AdapterCalls[i].vendor_called

====
